---------------------------- MODULE Spec2Model ----------------------------
(***************************************************************************)
(* A model of the lottery analysis and generation scripts:                 *)
(*   heat_index_rankings.py        HeatIndexRankings                       *)
(*   advanced_pattern_analyzer.py  AdvancedPatternAnalyzer (clustering)    *)
(*   advanced_pattern_summary.py   AdvancedPatternSummary  (clustering)    *)
(*   final/ultimate/intelligent/smart_lottery_generator.py                 *)
(*                                                                         *)
(* Draw histories are kept run-length encoded: a row <<numbers, reps>>     *)
(* stands for reps consecutive CSV rows with the same six numbers.  Every  *)
(* tally below is computed exactly as collections.Counter computes it on   *)
(* the expanded list (counts, and keys in order of first appearance).      *)
(*                                                                         *)
(* Real-valued quantities are kept exactly.  A z-score is the pair         *)
(* [num, rad] standing for num / sqrt(rad); comparisons with the rational  *)
(* thresholds of the code are decided exactly by integer arithmetic.       *)
(***************************************************************************)
EXTENDS Integers, Sequences, FiniteSets, TLC

VARIABLES
    \* HeatIndexRankings
    hi_pc,             \* "new", "loaded", "ready" or "failed"
    hi_df,             \* self.df
    hi_white_balls,    \* self.white_balls
    hi_powerballs,     \* self.powerballs
    white_heat_data,   \* self.white_heat_data
    pb_heat_data,      \* self.pb_heat_data
    hi_error           \* the exception that ended the constructor, or "none"

hi_vars == <<hi_pc, hi_df, hi_white_balls, hi_powerballs, white_heat_data,
             pb_heat_data, hi_error>>

VARIABLES
    \* AdvancedPatternAnalyzer / AdvancedPatternSummary . clustering_analysis
    cl_impl,           \* "analyzer" or "summary"
    cl_n,              \* number of draws (rows of X)
    cl_distinct,       \* number of distinct rows of X
    cl_pc,             \* "new", "sweep", "done" or "failed"
    cl_k,              \* the loop variable k
    best_k,
    best_score,        \* in tenths
    scores,            \* the (k, score) pairs measured so far, in order
    cluster_k,         \* number of clusters of the fit stored in df['Cluster'], 0 if none
    cl_error,
    np_random,         \* the state of the global numpy random generator
    sweep_labels,      \* cluster_labels of each fit of the sweep, in order
    cluster_labels,    \* df['Cluster'], <<>> while the column does not exist
    cl_run,            \* 1 for the first call of clustering_analysis, 2 for the second
    cl_first           \* what the first call ended with, NoRun until it is called again

cl_vars == <<cl_impl, cl_n, cl_distinct, cl_pc, cl_k, best_k, best_score, scores,
             cluster_k, cl_error, np_random, sweep_labels, cluster_labels, cl_run,
             cl_first>>

VARIABLES
    \* Smart / Final / Intelligent / Ultimate LotteryGenerator
    gen_class,             \* "smart", "final", "intelligent" or "ultimate"
    gen_pc,                \* "new", "loaded", "ready", "sampling", "returned", "raised"
                           \* or "done"
    gen_df,                \* self.df
    gen_white_balls,       \* self.white_balls
    gen_powerballs,        \* self.powerballs
    hot_numbers,           \* self.hot_numbers, each entry <<num, observed_count>>
    cold_numbers,          \* self.cold_numbers
    hot_powerballs,        \* self.hot_powerballs
    cold_powerballs,       \* self.cold_powerballs
    white_freq,            \* self.white_freq, a Counter: <<key, count>> in insertion order
    pb_freq,               \* self.pb_freq
    position_preferences,  \* self.position_preferences, one list per position
    gen_call,              \* the strategy whose rejection-sampling loop is running
    selection_pool,        \* the local list selection_pool of that call, run-length encoded
    white_balls,           \* the local list white_balls of that loop
    attempts,              \* number of draws the running loop has made (saturating)
    picked,                \* what the last call selected that its result does not
                           \* show: the picks of a per-position loop, the list a
                           \* contrarian powerball was taken from
    gen_result,            \* what the last strategy call returned or raised
    num_sets,              \* the argument num_sets of generate_*_sets
    set_i,                 \* the loop variable i of generate_*_sets
    generated_sets,        \* the local list generated_sets of generate_*_sets
    first_run_set          \* what the call made in an earlier run returned

gen_fields == <<gen_class, gen_df, gen_white_balls, gen_powerballs, hot_numbers,
                cold_numbers, hot_powerballs, cold_powerballs, white_freq, pb_freq,
                position_preferences>>

gen_locals == <<gen_call, selection_pool, white_balls, attempts, picked>>

gen_sets == <<num_sets, set_i, generated_sets>>

gen_vars == <<gen_fields, gen_pc, gen_locals, gen_result, gen_sets, first_run_set>>

VARIABLES
    \* AdvancedPatternAnalyzer / AdvancedPatternSummary: load_data, prepare_features
    fe_pc,             \* "new", "loaded", "ready" or "failed"
    fe_rows,           \* the rows of the CSV file, in file order: date and tokens
    fe_df,             \* self.df after load_data: date, white balls, powerball
    features,          \* the columns prepare_features adds, one record per row
    fe_error           \* the exception that ended the constructor, or "none"

fe_vars == <<fe_pc, fe_rows, fe_df, features, fe_error>>

vars == <<hi_vars, cl_vars, gen_vars, fe_vars>>

\* ------------------------------------------------------------------------
\* Program constants
\* ------------------------------------------------------------------------
\* range(1, 70): the white-ball domain is 1..69
WhiteMax == 69
\* range(1, 27): the powerball domain is 1..26
PbMax == 26
\* x[:5]: the first five tokens of a row are the white balls
WhitePerDraw == 5
\* heat_index = 50 + z_score * 16.67, in hundredths: 5000 + z * 1667
HeatMid100 == 5000
HeatSlope100 == 1667
HeatMax100 == 10000

WhiteDomain == 1..WhiteMax
PbDomain == 1..PbMax

\* ------------------------------------------------------------------------
\* Bounds of the model
\* ------------------------------------------------------------------------
\* longest enumerated history, in run-length rows
MaxRows == 2
\* largest number of draws handed to the clustering
MaxSamples == 9
\* random.sample, and the draws of a rejection-sampling loop, reach the first
\* SampleBound members of their population
SampleBound == 5
\* random.choice and random.randint reach the first ChoiceBound members
ChoiceBound == 2
\* the count of draws made by a rejection-sampling loop stops at AttemptCap
AttemptCap == 6

\* ------------------------------------------------------------------------
\* Generic helpers
\* ------------------------------------------------------------------------
Range(s) == {s[i] : i \in 1..Len(s)}

Min2(a, b) == IF a <= b THEN a ELSE b
Max2(a, b) == IF a >= b THEN a ELSE b

Sign(x) == IF x > 0 THEN 1 ELSE IF x < 0 THEN -1 ELSE 0

\* the tuple <<F(lo), ..., F(hi)>>, built by halves
RECURSIVE TupleRange(_, _, _)
TupleRange(F(_), lo, hi) ==
    IF lo > hi THEN <<>>
    ELSE IF lo = hi THEN <<F(lo)>>
    ELSE LET mid == (lo + hi) \div 2
         IN  TupleRange(F, lo, mid) \o TupleRange(F, mid + 1, hi)

\* the tuple <<F(1), ..., F(n)>>
TupleOf(F(_), n) == TupleRange(F, 1, n)

RECURSIVE SumSeq(_)
SumSeq(s) == IF s = <<>> THEN 0 ELSE s[1] + SumSeq(Tail(s))

\* sign(x - p * sqrt(M)) for integers x >= 0, p >= 1, M >= 0, decided exactly:
\* with x = k*p + r, sqrt(M) is compared with k + r/p.  Every radicand used
\* is below 40000^2, so a quotient k above 40000 already exceeds sqrt(M)
\* (and is not squared, which keeps the arithmetic in 32-bit range).
CmpSqrt(x, p, M) ==
    LET k == x \div p
        r == x % p
        d == M - k * k
        f == (r * r) \div p
        g == (r * r) % p
        e == 2 * k * r + f - d * p
    IN  IF k > 40000 THEN 1
        ELSE IF d <= 0 THEN (IF d = 0 /\ r = 0 THEN 0 ELSE 1)
        ELSE IF d >= 2 * k + 1 THEN -1
        ELSE IF e >= 1 THEN 1
        ELSE IF e <= -1 THEN -1
        ELSE IF g > 0 THEN 1 ELSE 0

\* sign(a + b * sqrt(M)) for integers a, b and M >= 0
SignSurd(a, b, M) ==
    IF b = 0 THEN Sign(a)
    ELSE IF b > 0 THEN (IF a >= 0 THEN (IF a = 0 /\ M = 0 THEN 0 ELSE 1)
                        ELSE -CmpSqrt(-a, b, M))
    ELSE (IF a <= 0 THEN (IF a = 0 /\ M = 0 THEN 0 ELSE -1)
          ELSE CmpSqrt(a, -b, M))

\* ------------------------------------------------------------------------
\* Input: the parsed CSV, run-length encoded
\* ------------------------------------------------------------------------
\* the distinct draws the enumerated histories are built from
\* (five white balls, then the powerball, as in "Winning Numbers")
Catalog ==
    << <<1, 2, 3, 4, 5, 1>>,
       <<2, 3, 4, 5, 6, 2>>,
       <<1, 2, 6, 7, 8, 1>>,
       <<10, 3, 25, 7, 40, 3>>,
       <<35, 36, 50, 60, 69, 26>> >>

RepChoices == {1, 2}

Row(numbers, reps) == [numbers |-> numbers, reps |-> reps]

RowSet == {Row(Catalog[i], r) : i \in 1..Len(Catalog), r \in RepChoices}

RECURSIVE SeqsUpTo(_, _)
SeqsUpTo(S, n) ==
    IF n = 0 THEN {<<>>}
    ELSE LET shorter == SeqsUpTo(S, n - 1)
         IN  shorter \cup {Append(s, x) : s \in {t \in shorter : Len(t) = n - 1}, x \in S}

\* 104 draws: the expected powerball count is 4 and sqrt(4) = 2, so the
\* powerball z-scores are (count - 4) / 2 and hit every category threshold
Boundary104 ==
    << Row(<<1, 2, 3, 4, 5, 1>>, 8),      \* z =  2
       Row(<<1, 2, 3, 4, 5, 2>>, 6),      \* z =  1
       Row(<<6, 7, 8, 9, 10, 3>>, 5),     \* z =  0.5
       Row(<<6, 7, 8, 9, 10, 4>>, 4),     \* z =  0
       Row(<<11, 12, 13, 14, 15, 5>>, 3), \* z = -0.5
       Row(<<11, 12, 13, 14, 15, 6>>, 2), \* z = -1
       Row(<<16, 17, 18, 19, 20, 7>>, 76) >>

\* 345 draws: the expected white-ball count is 25 and sqrt(25) = 5, so the
\* white-ball z-scores are (count - 25) / 5; a number never drawn has z = -5
Boundary345 ==
    << Row(<<1, 2, 3, 4, 5, 1>>, 35),       \* z =  2
       Row(<<6, 7, 8, 9, 10, 2>>, 30),      \* z =  1
       Row(<<11, 12, 13, 14, 15, 3>>, 25),  \* z =  0
       Row(<<16, 17, 18, 19, 20, 4>>, 20),  \* z = -1
       Row(<<21, 22, 23, 24, 25, 5>>, 15),  \* z = -2
       Row(<<26, 27, 28, 29, 30, 6>>, 220) >>

Histories == SeqsUpTo(RowSet, MaxRows) \cup {Boundary104, Boundary345}

\* ------------------------------------------------------------------------
\* Run-length lists and collections.Counter
\* ------------------------------------------------------------------------
\* a chunk [vals, reps] stands for the list vals repeated reps times
Chunk(vals, reps) == [vals |-> vals, reps |-> reps]

RECURSIVE LenRL(_)
LenRL(l) == IF l = <<>> THEN 0 ELSE Len(l[1].vals) * l[1].reps + LenRL(Tail(l))

Occurrences(vals, n) == Cardinality({i \in 1..Len(vals) : vals[i] = n})

\* Counter(l)[n]
RECURSIVE CountRL(_, _)
CountRL(l, n) ==
    IF l = <<>> THEN 0
    ELSE Occurrences(l[1].vals, n) * l[1].reps + CountRL(Tail(l), n)

\* number of rows of the DataFrame
RECURSIVE NumDraws(_)
NumDraws(df) == IF df = <<>> THEN 0 ELSE df[1].reps + NumDraws(Tail(df))

\* (mutant for C7) the slice drops the fifth white ball
FlattenWhiteShort(df) ==
    [i \in 1..Len(df) |-> Chunk(SubSeq(df[i].numbers, 1, WhitePerDraw - 1), df[i].reps)]

\* load_data: x[:5] are the white balls, x[5] is the powerball, flattened
FlattenWhite(df) ==
    [i \in 1..Len(df) |-> Chunk(SubSeq(df[i].numbers, 1, WhitePerDraw), df[i].reps)]

FlattenPb(df) ==
    [i \in 1..Len(df) |-> Chunk(<<df[i].numbers[WhitePerDraw + 1]>>, df[i].reps)]

\* ------------------------------------------------------------------------
\* z-score, heat index and category (heat_index_rankings.py)
\* ------------------------------------------------------------------------
\* (mutant for C8) the expected count is taken over one number too few
ZScoreOffByOne(observed, total, size) ==
    [num |-> (size - 1) * observed - total, rad |-> total * (size - 1)]

\* (observed - total/size) / sqrt(total/size) = (size*observed - total) / sqrt(total*size)
ZScore(observed, total, size) == [num |-> size * observed - total, rad |-> total * size]

\* sign(z - p/q), q > 0
ZCmp(z, p, q) == SignSurd(q * z.num, -p, z.rad)

\* sign(z1 - z2) for z-scores of one domain
ZOrder(z1, z2) == Sign(z1.num - z2.num)

ZIsZero(z) == z.num = 0

\* a heat value [c, k, num, rad] stands for (c + k * num / sqrt(rad)) / 100
HeatConst(c, rad) == [c |-> c, k |-> 0, num |-> 0, rad |-> rad]

\* 50 + (z_score * 16.67)
HeatRaw(z) == [c |-> HeatMid100, k |-> HeatSlope100, num |-> z.num, rad |-> z.rad]

\* sign(h1 - h2) for heat values of one domain
HeatCmp(h1, h2) == SignSurd(h1.k * h1.num - h2.k * h2.num, h1.c - h2.c, h1.rad)

\* (mutant for C5) the value is not clamped
ClampNone(v) == v

\* max(0, min(100, v)): min keeps 100 unless v < 100, max keeps 0 unless the result > 0
Clamp(v) ==
    LET hundred == HeatConst(HeatMax100, v.rad)
        zero == HeatConst(0, v.rad)
        m == IF HeatCmp(v, hundred) < 0 THEN v ELSE hundred
    IN  IF HeatCmp(m, zero) > 0 THEN m ELSE zero

HeatIndex(z) == Clamp(HeatRaw(z))

\* (mutant for C6) the top threshold is exclusive
get_heat_category_strict(z) ==
    IF ZCmp(z, 2, 1) > 0 THEN "BLAZING HOT"
    ELSE IF ZCmp(z, 1, 1) >= 0 THEN "HOT"
    ELSE IF ZCmp(z, 1, 2) >= 0 THEN "WARM"
    ELSE IF ZCmp(z, -1, 2) >= 0 THEN "NEUTRAL"
    ELSE IF ZCmp(z, -1, 1) >= 0 THEN "COOL"
    ELSE IF ZCmp(z, -2, 1) >= 0 THEN "COLD"
    ELSE "FREEZING"

get_heat_category(z) ==
    IF ZCmp(z, 2, 1) >= 0 THEN "BLAZING HOT"
    ELSE IF ZCmp(z, 1, 1) >= 0 THEN "HOT"
    ELSE IF ZCmp(z, 1, 2) >= 0 THEN "WARM"
    ELSE IF ZCmp(z, -1, 2) >= 0 THEN "NEUTRAL"
    ELSE IF ZCmp(z, -1, 1) >= 0 THEN "COOL"
    ELSE IF ZCmp(z, -2, 1) >= 0 THEN "COLD"
    ELSE "FREEZING"

\* one entry of white_heat_data / pb_heat_data
HeatEntry(num, list, size) ==
    LET observed == CountRL(list, num)
        z == ZScore(observed, LenRL(list), size)
    IN  [number |-> num,
         frequency |-> observed,
         z_score |-> z,
         heat_index |-> HeatIndex(z),
         category |-> get_heat_category(z)]

\* list.sort(key=heat_index, reverse=True) is stable: an entry is preceded by
\* the entries with a greater key and by the earlier entries with an equal key
\* (mutant for C4) an ascending sort reversed afterwards: equal keys end up in
\* reverse order
RankDescReversed(t, i) ==
    Cardinality({j \in 1..Len(t) :
        \/ HeatCmp(t[j].heat_index, t[i].heat_index) > 0
        \/ (j > i /\ HeatCmp(t[j].heat_index, t[i].heat_index) = 0)}) + 1

RankDesc(t, i) ==
    Cardinality({j \in 1..Len(t) :
        \/ HeatCmp(t[j].heat_index, t[i].heat_index) > 0
        \/ (j < i /\ HeatCmp(t[j].heat_index, t[i].heat_index) = 0)}) + 1

SortByHeatDesc(t) ==
    LET RankOf(i) == RankDesc(t, i)
        rank == TupleOf(RankOf, Len(t))
        At(p) == t[CHOOSE i \in 1..Len(t) : rank[i] = p]
    IN  TupleOf(At, Len(t))

\* the loop over range(1, size + 1) appending one entry per number
UnsortedHeatTable(list, size) ==
    LET Entry(n) == HeatEntry(n, list, size)
    IN  TupleOf(Entry, size)

HeatTable(list, size) == SortByHeatDesc(UnsortedHeatTable(list, size))

\* ------------------------------------------------------------------------
\* HeatIndexRankings: __init__, load_data, calculate_heat_index
\* ------------------------------------------------------------------------
\* no call of clustering_analysis has been made again
NoRun == [best_k |-> 0, scores |-> <<>>, sweep_labels |-> <<>>, cluster_labels |-> <<>>]

\* the clustering object is not part of this specification
ClusterIdle ==
    /\ cl_impl = "analyzer"
    /\ cl_n = 0
    /\ cl_distinct = 0
    /\ cl_pc = "new"
    /\ cl_k = 0
    /\ best_k = 0
    /\ best_score = 0
    /\ scores = <<>>
    /\ cluster_k = 0
    /\ cl_error = "none"
    /\ np_random = 0
    /\ sweep_labels = <<>>
    /\ cluster_labels = <<>>
    /\ cl_run = 1
    /\ cl_first = NoRun

NoResult ==
    [status |-> "none", strategy |-> "none", white_balls |-> <<>>, powerball |-> 0,
     error |-> "none"]

\* a generator object is not part of this specification
GenIdle ==
    /\ gen_class = "smart"
    /\ gen_pc = "new"
    /\ gen_df = <<>>
    /\ gen_white_balls = <<>>
    /\ gen_powerballs = <<>>
    /\ hot_numbers = <<>>
    /\ cold_numbers = <<>>
    /\ hot_powerballs = <<>>
    /\ cold_powerballs = <<>>
    /\ white_freq = <<>>
    /\ pb_freq = <<>>
    /\ position_preferences = <<>>
    /\ gen_call = "none"
    /\ selection_pool = <<>>
    /\ white_balls = <<>>
    /\ attempts = 0
    /\ picked = <<>>
    /\ gen_result = NoResult
    /\ num_sets = 0
    /\ set_i = 0
    /\ generated_sets = <<>>
    /\ first_run_set = NoResult

\* no feature table is part of this specification
FeatIdle ==
    /\ fe_pc = "new"
    /\ fe_rows = <<>>
    /\ fe_df = <<>>
    /\ features = <<>>
    /\ fe_error = "none"

HeatIdle ==
    /\ hi_pc = "new"
    /\ hi_df = <<>>
    /\ hi_white_balls = <<>>
    /\ hi_powerballs = <<>>
    /\ white_heat_data = <<>>
    /\ pb_heat_data = <<>>
    /\ hi_error = "none"

HeatInit ==
    /\ ClusterIdle
    /\ GenIdle
    /\ FeatIdle
    /\ hi_pc = "new"
    /\ hi_df = <<>>
    /\ hi_white_balls = <<>>
    /\ hi_powerballs = <<>>
    /\ white_heat_data = <<>>
    /\ pb_heat_data = <<>>
    /\ hi_error = "none"

HeatLoadData ==
    /\ hi_pc = "new"
    /\ \E h \in Histories :
        /\ hi_df' = h
        /\ hi_white_balls' = FlattenWhite(h)
        /\ hi_powerballs' = FlattenPb(h)
    /\ hi_pc' = "loaded"
    /\ UNCHANGED <<white_heat_data, pb_heat_data, hi_error>>
    /\ UNCHANGED cl_vars
    /\ UNCHANGED gen_vars
    /\ UNCHANGED fe_vars

\* (mutant for C9) the division is guarded
PercentageNeverRaises(list) == FALSE

\* percentage = (observed_count / len(list)) * 100 divides two Python ints:
\* ZeroDivisionError on an empty list.  (The z_score computed just before is
\* 0.0 / numpy.sqrt(0.0), a NaN and no exception.)
PercentageRaises(list) == LenRL(list) = 0

calculate_heat_index ==
    /\ hi_pc = "loaded"
    /\ IF PercentageRaises(hi_white_balls)
       THEN \* raised in the first iteration of the white-ball loop:
            \* white_heat_data is still [], pb_heat_data was never assigned
            /\ hi_pc' = "failed"
            /\ hi_error' = "ZeroDivisionError"
            /\ UNCHANGED <<white_heat_data, pb_heat_data>>
       ELSE IF PercentageRaises(hi_powerballs)
       THEN /\ hi_pc' = "failed"
            /\ hi_error' = "ZeroDivisionError"
            /\ white_heat_data' = UnsortedHeatTable(hi_white_balls, WhiteMax)
            /\ UNCHANGED pb_heat_data
       ELSE /\ hi_pc' = "ready"
            /\ white_heat_data' = HeatTable(hi_white_balls, WhiteMax)
            /\ pb_heat_data' = HeatTable(hi_powerballs, PbMax)
            /\ UNCHANGED hi_error
    /\ UNCHANGED <<hi_df, hi_white_balls, hi_powerballs>>
    /\ UNCHANGED cl_vars
    /\ UNCHANGED gen_vars
    /\ UNCHANGED fe_vars

HeatNext ==
    \/ HeatLoadData
    \/ calculate_heat_index

SpecHeat == HeatInit /\ [][HeatNext]_vars

\* ------------------------------------------------------------------------
\* clustering_analysis (advanced_pattern_analyzer.py, advanced_pattern_summary.py)
\* ------------------------------------------------------------------------
\* range(2, 8)
KMin == 2
KMax == 7
\* best_k before the sweep: 3 in the analyzer, 2 in the summary
InitialBestK(impl) == IF impl = "analyzer" THEN 3 ELSE 2
\* best_score = -1, in tenths
InitialBestScore == -10
\* the values a silhouette score takes in the model, in tenths of [-1, 1]
ScoreVals == {-10, 0, 5, 10}

\* how many of the draws have pairwise different feature rows
DistinctChoices(n) == {d \in {1, 2, n} : d <= n}

\* load_data ends with a print of self.df['Draw Date'].min().strftime(...):
\* on a file without draws the minimum is NaT, whose strftime raises
\* ValueError, so the constructor fails and no method can be called
LoadDataRaises(n) == n = 0

\* StandardScaler().fit_transform(X) rejects an empty X
ScalerRaises(n) == n = 0

\* (mutant for C14) KMeans clusters any number of draws
KMeansNeverRaises(n, k) == FALSE

\* KMeans(n_clusters=k).fit_predict(X): ValueError when n_samples < n_clusters;
\* otherwise the labels take min(k, distinct rows) different values
KMeansRaises(n, k) == n < k
KMeansLabelCount(d, k) == Min2(k, d)

\* silhouette_score(X, labels): ValueError unless 2 <= n_labels <= n_samples - 1
SilhouetteRaises(n, nlabels) == ~(2 <= nlabels /\ nlabels <= n - 1)

\* random_state=42
KMeansSeed == 42
\* the states the global numpy generator can be in when the method is called
AmbientStates == {0, 1}

\* the random_state of KMeans(n_clusters=k, random_state=42, n_init=10) in the
\* sweep: the literal, whatever the state of the global generator
SweepRandomState(ambient) == KMeansSeed

\* (mutant for C12) the final fit is seeded from the global generator
RefitRandomStateAmbient(ambient) == ambient

\* the random_state of KMeans(n_clusters=best_k, random_state=42, n_init=10)
RefitRandomState(ambient) == KMeansSeed

\* kmeans.fit_predict(X_scaled): one label of 0..k-1 per draw, a function of
\* the rows, of k and of random_state.  The n draws are d distinct rows in
\* rotation (draw i is row (i-1) % d); equal rows get equal labels, the labels
\* take min(k, d) values, and which cluster gets which label depends on
\* random_state.
KMeansLabels(n, d, k, random_state) ==
    [i \in 1..n |-> (((i - 1) % d) + random_state) % k]

\* silhouette_score(X_scaled, cluster_labels) is a function of the rows and
\* the labels: a labelling scored before gets the score it got then
SilhouetteScores(k, labels) ==
    LET again == {i \in 1..Len(cl_first.scores) :
                    cl_first.scores[i][1] = k /\ cl_first.sweep_labels[i] = labels}
    IN  IF again # {} THEN {cl_first.scores[i][2] : i \in again} ELSE ScoreVals

ClusterInit ==
    /\ HeatIdle
    /\ GenIdle
    /\ FeatIdle
    /\ cl_impl \in {"analyzer", "summary"}
    /\ cl_n \in 0..MaxSamples
    /\ cl_distinct \in (IF cl_n = 0 THEN {0} ELSE DistinctChoices(cl_n))
    /\ cl_pc = "new"
    /\ cl_k = 0
    /\ best_k = 0
    /\ best_score = 0
    /\ scores = <<>>
    /\ cluster_k = 0
    /\ cl_error = "none"
    /\ np_random = 0
    /\ sweep_labels = <<>>
    /\ cluster_labels = <<>>
    /\ cl_run = 1
    /\ cl_first = NoRun

\* the constructor; then feature selection, scaling, best_k and best_score
\* set up
ClusterBegin ==
    /\ cl_pc = "new"
    /\ IF LoadDataRaises(cl_n) \/ ScalerRaises(cl_n)
       THEN /\ cl_pc' = "failed"
            /\ cl_error' = "ValueError"
            /\ UNCHANGED <<cl_k, best_k, best_score>>
       ELSE /\ cl_pc' = "sweep"
            /\ best_k' = InitialBestK(cl_impl)
            /\ best_score' = InitialBestScore
            /\ cl_k' = KMin
            /\ UNCHANGED cl_error
    /\ UNCHANGED <<cl_impl, cl_n, cl_distinct, scores, cluster_k>>
    /\ UNCHANGED <<np_random, sweep_labels, cluster_labels, cl_run, cl_first>>
    /\ UNCHANGED hi_vars
    /\ UNCHANGED gen_vars
    /\ UNCHANGED fe_vars

\* (mutant for C11) a later k with an equal score replaces the best
BetterScoreOrEqual(score, best) == score >= best

\* if score > best_score: best_score = score; best_k = k
BetterScore(score, best) == score > best

\* one iteration of: for k in range(2, 8)
ClusterSweepStep ==
    /\ cl_pc = "sweep"
    /\ cl_k <= KMax
    /\ IF KMeansRaises(cl_n, cl_k)
       THEN /\ cl_pc' = "failed"
            /\ cl_error' = "ValueError"
            /\ UNCHANGED <<cl_k, best_k, best_score, scores, sweep_labels>>
       ELSE LET labels == KMeansLabels(cl_n, cl_distinct, cl_k,
                                       SweepRandomState(np_random))
            IN  IF SilhouetteRaises(cl_n, KMeansLabelCount(cl_distinct, cl_k))
                THEN \* the draws were clustered, the clustering cannot be scored
                     /\ cl_pc' = "failed"
                     /\ cl_error' = "ValueError"
                     /\ sweep_labels' = Append(sweep_labels, labels)
                     /\ UNCHANGED <<cl_k, best_k, best_score, scores>>
                ELSE \E score \in SilhouetteScores(cl_k, labels) :
                     /\ IF BetterScore(score, best_score)
                        THEN best_score' = score /\ best_k' = cl_k
                        ELSE UNCHANGED <<best_score, best_k>>
                     /\ scores' = Append(scores, <<cl_k, score>>)
                     /\ sweep_labels' = Append(sweep_labels, labels)
                     /\ cl_k' = cl_k + 1
                     /\ UNCHANGED <<cl_pc, cl_error>>
    /\ UNCHANGED <<cl_impl, cl_n, cl_distinct, cluster_k>>
    /\ UNCHANGED <<np_random, cluster_labels, cl_run, cl_first>>
    /\ UNCHANGED hi_vars
    /\ UNCHANGED gen_vars
    /\ UNCHANGED fe_vars

\* final clustering with best k, stored in df['Cluster'].  best_k was fitted
\* in the sweep (it is a k of the sweep, or the initial value, which the sweep
\* also fitted), so this fit cannot raise where that one did not.
ClusterRefit ==
    /\ cl_pc = "sweep"
    /\ cl_k > KMax
    /\ cl_pc' = "done"
    /\ cluster_k' = best_k
    /\ cluster_labels' = KMeansLabels(cl_n, cl_distinct, best_k,
                                      RefitRandomState(np_random))
    /\ UNCHANGED <<cl_impl, cl_n, cl_distinct, cl_k, best_k, best_score, scores, cl_error>>
    /\ UNCHANGED <<np_random, sweep_labels, cl_run, cl_first>>
    /\ UNCHANGED hi_vars
    /\ UNCHANGED gen_vars
    /\ UNCHANGED fe_vars

\* clustering_analysis is called a second time on the same draws; whatever
\* ran in between has left the global generator in some state
ClusterRerun ==
    /\ cl_pc = "done"
    /\ cl_run = 1
    /\ cl_run' = 2
    /\ cl_first' = [best_k |-> best_k, scores |-> scores,
                    sweep_labels |-> sweep_labels, cluster_labels |-> cluster_labels]
    /\ np_random' \in AmbientStates
    /\ cl_pc' = "new"
    /\ cl_k' = 0
    /\ best_k' = 0
    /\ best_score' = 0
    /\ scores' = <<>>
    /\ sweep_labels' = <<>>
    /\ UNCHANGED <<cl_impl, cl_n, cl_distinct, cluster_k, cluster_labels, cl_error>>
    /\ UNCHANGED hi_vars
    /\ UNCHANGED gen_vars
    /\ UNCHANGED fe_vars

ClusterNext ==
    \/ ClusterBegin
    \/ ClusterSweepStep
    \/ ClusterRefit
    \/ ClusterRerun

SpecCluster == ClusterInit /\ [][ClusterNext]_vars

\* ------------------------------------------------------------------------
\* The generators: lists, Counter, random
\* ------------------------------------------------------------------------
\* list.sort / sorted are stable: an element is preceded by the elements that
\* sort before it and by the earlier elements that sort equal to it
StableSort(s, Before(_, _)) ==
    LET RankOf(i) ==
            Cardinality({j \in 1..Len(s) :
                \/ Before(s[j], s[i])
                \/ (j < i /\ ~Before(s[i], s[j]))}) + 1
        rank == TupleOf(RankOf, Len(s))
        At(p) == s[CHOOSE i \in 1..Len(s) : rank[i] = p]
    IN  TupleOf(At, Len(s))

\* sorted(white_balls)
sorted(s) == StableSort(s, LAMBDA a, b : a < b)

FirstN(s, n) == SubSeq(s, 1, Min2(n, Len(s)))
LastN(s, n) == SubSeq(s, Max2(1, Len(s) - n + 1), Len(s))

\* [num for num, ... in pairs]
Keys(pairs) ==
    LET Key(i) == pairs[i][1]
    IN  TupleOf(Key, Len(pairs))

\* [x for x in s if x not in excluded]
Without(s, excluded) == SelectSeq(s, LAMBDA x : x \notin Range(excluded))

\* the values of a run-length list, each chunk once
RECURSIVE FlatVals(_)
FlatVals(l) == IF l = <<>> THEN <<>> ELSE l[1].vals \o FlatVals(Tail(l))

\* the distinct values of s in order of first appearance
FirstAppearances(s) ==
    LET first == {i \in 1..Len(s) : \A j \in 1..(i - 1) : s[j] # s[i]}
        Nth(p) == s[CHOOSE i \in first : Cardinality({j \in first : j < i}) = p - 1]
    IN  TupleOf(Nth, Cardinality(first))

\* Counter(list): keys in insertion order, each with its count
CounterOf(l) ==
    LET keys == FirstAppearances(FlatVals(l))
        Item(i) == <<keys[i], CountRL(l, keys[i])>>
    IN  TupleOf(Item, Len(keys))

\* counter.get(n, 0)
CounterGet(ctr, n) ==
    IF \E i \in 1..Len(ctr) : ctr[i][1] = n
    THEN ctr[CHOOSE i \in 1..Len(ctr) : ctr[i][1] = n][2]
    ELSE 0

\* counter.most_common(): by count, descending; equal counts in insertion order
most_common(ctr) == StableSort(ctr, LAMBDA a, b : a[2] > b[2])

\* list(range(1, size + 1))
AllNumbers(size) == TupleOf(LAMBDA i : i, size)

\* [num for num in range(1, 70) if num not in white_balls]
Available(w) == Without(AllNumbers(WhiteMax), w)

\* random.choice(list) of a non-empty list
random_choice(list) == {list[i] : i \in 1..Min2(Len(list), ChoiceBound)}

\* random.randint(a, b)
randint(a, b) == a..Min2(b, a + ChoiceBound - 1)

\* random.sample(list, k) for k <= len(list): the elements at k different
\* positions.  The selection is listed in position order; every use made of a
\* selection (membership tests, sorted) is independent of its order.
random_sample(list, k) ==
    LET m == Min2(Len(list), SampleBound)
        Pick(P) ==
            LET Nth(p) == list[CHOOSE i \in P : Cardinality({j \in P : j < i}) = p - 1]
            IN  TupleOf(Nth, k)
    IN  {Pick(P) : P \in {Q \in SUBSET (1..m) : Cardinality(Q) = k}}

\* random.sample(list, k) raises ValueError when k exceeds len(list)
SampleRaises(list, k) == k > Len(list) \/ k < 0

\* while len(white_balls) < 5: white_balls.append(random.choice(available))
RECURSIVE FillRandom(_)
FillRandom(w) ==
    IF Len(w) >= WhitePerDraw THEN {w}
    ELSE UNION {FillRandom(Append(w, x)) : x \in random_choice(Available(w))}

\* ------------------------------------------------------------------------
\* The generators: __init__, load_data, analyze_patterns / analyze_all_patterns
\* ------------------------------------------------------------------------
\* the histories a generator is built on
GenRowSet == {Row(Catalog[1], 1), Row(Catalog[2], 1)}

\* three draws in which only 1 and 2 recur: the hot list is [1, 2]
TwoHot ==
    << Row(<<1, 2, 3, 4, 5, 1>>, 1),
       Row(<<1, 2, 6, 7, 8, 1>>, 1),
       Row(<<35, 36, 50, 60, 69, 26>>, 1) >>

GenHistories ==
    (SeqsUpTo(GenRowSet, MaxRows) \ {<<>>}) \cup {TwoHot, Boundary104, Boundary345}

\* the (num, z_score, observed_count) entries of range(1, size + 1) for which
\* Test(z_score) holds, in ascending number order
Classified(list, size, Test(_)) ==
    LET total == LenRL(list)
        Entry(n) == <<n, CountRL(list, n)>>
    IN  SelectSeq(TupleOf(Entry, size),
                  LAMBDA e : Test(ZScore(e[2], total, size)))

\* z_score > p/q, then sort(key=z_score, reverse=True)
HotList(list, size, p, q) ==
    StableSort(Classified(list, size, LAMBDA z : ZCmp(z, p, q) > 0),
               LAMBDA a, b : a[2] > b[2])

\* (mutant for C27) the cold test takes the magnitude of the z-score
ColdListMagnitude(list, size, p, q) ==
    StableSort(Classified(list, size,
                          LAMBDA z : ZCmp(z, -p, q) < 0 \/ ZCmp(z, p, q) > 0),
               LAMBDA a, b : a[2] < b[2])

\* z_score < -p/q, then sort(key=z_score)
ColdList(list, size, p, q) ==
    StableSort(Classified(list, size, LAMBDA z : ZCmp(z, -p, q) < 0),
               LAMBDA a, b : a[2] < b[2])

\* sorted(row['White Balls'])[pos], one entry per row
PositionColumn(df, pos) ==
    [i \in 1..Len(df) |->
        Chunk(<<sorted(SubSeq(df[i].numbers, 1, WhitePerDraw))[pos]>>, df[i].reps)]

\* analyze_position_patterns: position_freq[pos].most_common(5)
PositionPreferences(df) ==
    LET Top(pos) == Keys(FirstN(most_common(CounterOf(PositionColumn(df, pos))), 5))
    IN  TupleOf(Top, WhitePerDraw)

GenInit ==
    /\ HeatIdle
    /\ ClusterIdle
    /\ FeatIdle
    /\ gen_class \in {"smart", "final", "intelligent", "ultimate"}
    /\ gen_pc = "new"
    /\ gen_df = <<>>
    /\ gen_white_balls = <<>>
    /\ gen_powerballs = <<>>
    /\ hot_numbers = <<>>
    /\ cold_numbers = <<>>
    /\ hot_powerballs = <<>>
    /\ cold_powerballs = <<>>
    /\ white_freq = <<>>
    /\ pb_freq = <<>>
    /\ position_preferences = <<>>
    /\ gen_call = "none"
    /\ selection_pool = <<>>
    /\ white_balls = <<>>
    /\ attempts = 0
    /\ picked = <<>>
    /\ gen_result = NoResult
    /\ num_sets = 0
    /\ set_i = 0
    /\ generated_sets = <<>>
    /\ first_run_set = NoResult

\* the other objects, and the record of an earlier run, are left alone
Idle == UNCHANGED <<hi_vars, cl_vars, fe_vars, gen_sets, first_run_set>>

\* load_data on one of the given files
LoadDataOf(histories) ==
    /\ gen_pc = "new"
    /\ \E h \in histories :
        /\ gen_df' = h
        /\ gen_white_balls' = FlattenWhite(h)
        /\ gen_powerballs' = FlattenPb(h)
    /\ gen_pc' = "loaded"
    /\ UNCHANGED <<gen_class, hot_numbers, cold_numbers, hot_powerballs, cold_powerballs,
                   white_freq, pb_freq, position_preferences>>
    /\ UNCHANGED <<gen_locals, gen_result>>
    /\ Idle

GenLoadData == LoadDataOf(GenHistories)

\* analyze_patterns (smart, intelligent) / analyze_all_patterns (final, ultimate)
analyze_all_patterns ==
    /\ gen_pc = "loaded"
    /\ hot_numbers' = HotList(gen_white_balls, WhiteMax, 2, 1)
    /\ cold_numbers' = ColdList(gen_white_balls, WhiteMax, 2, 1)
    /\ IF gen_class \in {"intelligent", "ultimate"}
       THEN /\ hot_powerballs' = HotList(gen_powerballs, PbMax, 3, 2)
            /\ cold_powerballs' = ColdList(gen_powerballs, PbMax, 3, 2)
       ELSE UNCHANGED <<hot_powerballs, cold_powerballs>>
    /\ IF gen_class = "final"
       THEN /\ white_freq' = CounterOf(gen_white_balls)
            /\ pb_freq' = CounterOf(gen_powerballs)
       ELSE UNCHANGED <<white_freq, pb_freq>>
    /\ IF gen_class = "ultimate"
       THEN position_preferences' = PositionPreferences(gen_df)
       ELSE UNCHANGED position_preferences
    /\ gen_pc' = "ready"
    /\ UNCHANGED <<gen_class, gen_df, gen_white_balls, gen_powerballs>>
    /\ UNCHANGED <<gen_locals, gen_result>>
    /\ Idle

\* ------------------------------------------------------------------------
\* The generators: building blocks of the strategies
\* ------------------------------------------------------------------------
\* (mutant for C22) the numbers returned are taken off self.hot_numbers
ReturningConsumed(strategy, picks, w, pb) ==
    /\ gen_pc' = "returned"
    /\ gen_result' = [status |-> "returned", strategy |-> strategy,
                      white_balls |-> sorted(w), powerball |-> pb, error |-> "none"]
    /\ gen_call' = "none"
    /\ selection_pool' = <<>>
    /\ white_balls' = <<>>
    /\ attempts' = 0
    /\ picked' = picks
    /\ hot_numbers' = SelectSeq(hot_numbers, LAMBDA e : e[1] \notin Range(w))
    /\ UNCHANGED <<gen_class, gen_df, gen_white_balls, gen_powerballs, cold_numbers,
                   hot_powerballs, cold_powerballs, white_freq, pb_freq,
                   position_preferences>>
    /\ Idle

\* return sorted(white_balls), powerball; picks is what the per-position loop
\* of the call selected (<<>> in a strategy without such a loop)
Returning(strategy, picks, w, pb) ==
    /\ gen_pc' = "returned"
    /\ gen_result' = [status |-> "returned", strategy |-> strategy,
                      white_balls |-> sorted(w), powerball |-> pb, error |-> "none"]
    /\ gen_call' = "none"
    /\ selection_pool' = <<>>
    /\ white_balls' = <<>>
    /\ attempts' = 0
    /\ picked' = picks
    /\ UNCHANGED gen_fields
    /\ Idle

\* return sorted(white_balls), powerball
Return(strategy, w, pb) == Returning(strategy, <<>>, w, pb)

\* an exception leaves the strategy; no caller catches it
Raise(strategy, error) ==
    /\ gen_pc' = "raised"
    /\ gen_result' = [status |-> "raised", strategy |-> strategy,
                      white_balls |-> <<>>, powerball |-> 0, error |-> error]
    /\ gen_call' = "none"
    /\ selection_pool' = <<>>
    /\ white_balls' = <<>>
    /\ attempts' = 0
    /\ picked' = <<>>
    /\ UNCHANGED gen_fields
    /\ Idle

\* powerball = random.choice(pbs): IndexError on an empty list
ChoosePowerball(strategy, w, pbs) ==
    IF pbs = <<>> THEN Raise(strategy, "IndexError")
    ELSE \E pb \in random_choice(pbs) : Return(strategy, w, pb)

\* the same after a per-position loop
ChoosePowerballPicked(strategy, picks, w, pbs) ==
    IF pbs = <<>> THEN Raise(strategy, "IndexError")
    ELSE \E pb \in random_choice(pbs) : Returning(strategy, picks, w, pb)

\* the caller takes the returned set (prints it) and goes on to the next call
display_numbers ==
    /\ gen_pc = "returned"
    /\ gen_pc' = "ready"
    /\ gen_result' = NoResult
    /\ picked' = <<>>
    /\ UNCHANGED <<gen_fields, gen_call, selection_pool, white_balls, attempts>>
    /\ Idle

\* remaining = 5 - len(white_balls); if remaining > 0: the candidates not yet
\* in white_balls; if there are any: extend by a sample of
\* min(remaining, len(available)) of them
TopUp(w, candidates) ==
    LET remaining == WhitePerDraw - Len(w)
        available == Without(candidates, w)
    IN  IF remaining > 0 /\ available # <<>>
        THEN {w \o s : s \in random_sample(available, Min2(remaining, Len(available)))}
        ELSE {w}

\* the top-up followed by the fill-with-random loop
Completed(w, candidates) == UNION {FillRandom(v) : v \in TopUp(w, candidates)}

\* random.sample(pool, min(cap, len(pool))) when the pool is not empty
SampleUpTo(pool, cap) ==
    IF pool = <<>> THEN {<<>>} ELSE random_sample(pool, Min2(cap, Len(pool)))

\* hot_in_position = [num for num in preferred_nums if num in hot]
HotInPosition(preferred_nums) ==
    SelectSeq(preferred_nums, LAMBDA n : n \in Range(Keys(hot_numbers)))

\* what one iteration of the per-position loop selects: the number, and
\* whether the branch for the hot numbers selected it
Pick(num, hot) == [num |-> num, hot |-> hot]

\* if hot_in_position and random.random() < p: random.choice(hot_in_position)
\* else: random.choice(preferred_nums)
PositionPick(preferred_nums) ==
    LET hot_in_position == HotInPosition(preferred_nums)
    IN  (IF hot_in_position # <<>>
         THEN {Pick(num, TRUE) : num \in random_choice(hot_in_position)} ELSE {})
        \cup {Pick(num, FALSE) : num \in random_choice(preferred_nums)}

\* for pos in range(5): white_balls.append(selected)
PositionPicks(prefs) ==
    {<<a, b, c, d, e>> : a \in PositionPick(prefs[1]), b \in PositionPick(prefs[2]),
                         c \in PositionPick(prefs[3]), d \in PositionPick(prefs[4]),
                         e \in PositionPick(prefs[5])}

\* white_balls after the per-position loop
Selected(picks) == [i \in 1..Len(picks) |-> picks[i].num]

\* (mutant for C20) the repair draws five new numbers
EnsureUniqueAfresh(w) ==
    IF Cardinality(Range(w)) < WhitePerDraw
    THEN random_sample(Available(<<>>), WhitePerDraw)
    ELSE {w}

\* while len(set(white_balls)) < 5: white_balls = list(set(white_balls)), then
\* extended by a sample of the numbers not in it.  One pass restores five
\* distinct values; the order of list(set(...)) does not reach the result,
\* which is sorted.
EnsureUnique(w) ==
    IF Cardinality(Range(w)) < WhitePerDraw
    THEN LET kept == FirstAppearances(w)
         IN  {kept \o s : s \in random_sample(Available(kept), WhitePerDraw - Len(kept))}
    ELSE {w}

\* (mutant for C29) the list of the 2nd position starts with a number of the
\* 1st position's list
FinalPositionPreferencesShared ==
    << <<1, 2, 3, 5, 4>>, <<2, 21, 28, 16, 15>>, <<37, 33, 35, 34, 32>>,
       <<52, 53, 45, 47, 39>>, <<69, 59, 58, 67, 68>> >>

\* the hard-coded position_preferences of final_lottery_generator.py
FinalPositionPreferences ==
    << <<1, 2, 3, 5, 4>>, <<12, 21, 28, 16, 15>>, <<37, 33, 35, 34, 32>>,
       <<52, 53, 45, 47, 39>>, <<69, 59, 58, 67, 68>> >>

\* the hard-coded position_preferences of the smart and intelligent generators
SmartPositionPreferences ==
    << <<1, 2, 3, 4, 5>>, <<12, 21, 28, 16, 15>>, <<37, 33, 35, 34, 32>>,
       <<52, 53, 45, 47, 39>>, <<69, 59, 58, 67, 68>> >>

\* [num for num, count in counter.most_common(n)]
MostCommonKeys(ctr, n) == Keys(FirstN(most_common(ctr), n))
\* [num for num, count in counter.most_common()[-n:]]
LeastCommonKeys(ctr, n) == Keys(LastN(most_common(ctr), n))

\* a pool is kept as its runs: [num, weight] stands for [num] * weight
PoolEntry(num, weight) == [num |-> num, weight |-> weight]

\* (mutant for C21) the weight is the quotient alone
FrequencyPoolQuotient(ctr, size, unit) ==
    [n \in 1..size |-> PoolEntry(n, CounterGet(ctr, n) \div unit)]

\* for num in range(1, size + 1): pool.extend([num] * max(1, count // unit))
FrequencyPool(ctr, size, unit) ==
    [n \in 1..size |-> PoolEntry(n, Max2(1, CounterGet(ctr, n) \div unit))]

\* pool.extend([num] * weight) for every num of nums
Weighted(nums, weight) == [i \in 1..Len(nums) |-> PoolEntry(nums[i], weight)]

\* the first `bound` distinct values of the pool, from run i on
RECURSIVE LeadingValues(_, _, _, _)
LeadingValues(pool, i, seen, bound) ==
    IF i > Len(pool) \/ Cardinality(seen) >= bound THEN seen
    ELSE LeadingValues(pool, i + 1,
                       IF pool[i].weight > 0 THEN seen \cup {pool[i].num} ELSE seen,
                       bound)

\* what a draw random.choice(selection_pool) of a rejection-sampling loop can give
PoolDraws(pool) == LeadingValues(pool, 1, {}, SampleBound)

\* what powerball = random.choice(pb_pool) can give
PoolChoice(pool) == LeadingValues(pool, 1, {}, ChoiceBound)

\* numbers of range(1, 70) not in w and neither hot nor cold
NeutralNumbers(w) ==
    Without(Without(Available(w), Keys(hot_numbers)), Keys(cold_numbers))

\* (mutant for C30) only the hot list is left out
NeutralPbsNotHot(hot, cold) == Without(AllNumbers(PbMax), Keys(hot))

\* numbers of range(1, 27) that are in neither list
NeutralPbs(hot, cold) == Without(Without(AllNumbers(PbMax), Keys(hot)), Keys(cold))

\* ------------------------------------------------------------------------
\* The rejection-sampling loop of the frequency-weighted and conservative
\* strategies
\* ------------------------------------------------------------------------
\* the pool is built and white_balls = []
BeginSampling(strategy, pool) ==
    /\ gen_pc' = "sampling"
    /\ gen_call' = strategy
    /\ selection_pool' = pool
    /\ white_balls' = <<>>
    /\ attempts' = 0
    /\ UNCHANGED <<gen_fields, gen_result, picked>>
    /\ Idle

\* (mutant for C3) every drawn number is appended
NotInAlways(w, num) == TRUE

\* if num not in white_balls
NotIn(w, num) == num \notin Range(w)

\* one iteration of: while len(white_balls) < 5:
\*     num = random.choice(selection_pool)
\*     if num not in white_balls: white_balls.append(num)
SamplingStep ==
    /\ gen_pc = "sampling"
    /\ Len(white_balls) < WhitePerDraw
    /\ \E num \in PoolDraws(selection_pool) :
        white_balls' = IF NotIn(white_balls, num) THEN Append(white_balls, num)
                       ELSE white_balls
    /\ attempts' = Min2(attempts + 1, AttemptCap)
    /\ UNCHANGED <<gen_fields, gen_pc, gen_call, selection_pool, gen_result, picked>>
    /\ Idle

\* the powerball pool of the running strategy
PbPool(strategy) ==
    CASE strategy = "generate_frequency_weighted_strategy" ->
            FrequencyPool(pb_freq, PbMax, 5)
      [] strategy = "generate_frequency_weighted" ->
            LET pb_counter == CounterOf(gen_powerballs)
            IN  FrequencyPool(pb_counter, PbMax, 5)
      [] strategy = "generate_conservative_numbers" ->
            Weighted(Keys(hot_powerballs), 40)
                \o Weighted(NeutralPbs(hot_powerballs, cold_powerballs), 10)

\* the loop has ended: the powerball is drawn from its pool, the set returned
SamplingFinish ==
    /\ gen_pc = "sampling"
    /\ Len(white_balls) >= WhitePerDraw
    /\ LET choices == PoolChoice(PbPool(gen_call))
       IN  IF choices = {} THEN Raise(gen_call, "IndexError")
           ELSE \E pb \in choices : Return(gen_call, white_balls, pb)

\* ------------------------------------------------------------------------
\* FinalLotteryGenerator
\* ------------------------------------------------------------------------
generate_ultimate_hot_strategy ==
    /\ gen_pc = "ready"
    /\ gen_class = "final"
    /\ \E hot_selected \in SampleUpTo(Keys(hot_numbers), 4) :
       \E w \in Completed(hot_selected, MostCommonKeys(white_freq, 20)) :
           ChoosePowerball("generate_ultimate_hot_strategy", w, MostCommonKeys(pb_freq, 10))

generate_ultimate_cold_strategy ==
    /\ gen_pc = "ready"
    /\ gen_class = "final"
    /\ \E cold_selected \in SampleUpTo(Keys(cold_numbers), 4) :
       \E w \in Completed(cold_selected, LeastCommonKeys(white_freq, 20)) :
           ChoosePowerball("generate_ultimate_cold_strategy", w, LeastCommonKeys(pb_freq, 10))

\* 2 of the list when it has at least 2 entries, otherwise the whole list
TwoOrAll(list) == IF Len(list) >= 2 THEN random_sample(list, 2) ELSE {list}

generate_ultimate_balanced_strategy ==
    /\ gen_pc = "ready"
    /\ gen_class = "final"
    /\ \E hot_selected \in TwoOrAll(Keys(hot_numbers)) :
       \E cold_selected \in TwoOrAll(Keys(cold_numbers)) :
           LET w == hot_selected \o cold_selected
           IN  \E rest \in random_sample(Available(w), WhitePerDraw - Len(w)) :
               \E frequent \in BOOLEAN :
                   ChoosePowerball("generate_ultimate_balanced_strategy", w \o rest,
                                   IF frequent THEN MostCommonKeys(pb_freq, 10)
                                   ELSE LeastCommonKeys(pb_freq, 10))

generate_frequency_weighted_strategy ==
    /\ gen_pc = "ready"
    /\ gen_class = "final"
    /\ BeginSampling("generate_frequency_weighted_strategy",
                     FrequencyPool(white_freq, WhiteMax, 10))

generate_position_based_strategy ==
    /\ gen_pc = "ready"
    /\ gen_class = "final"
    /\ \E picks \in PositionPicks(FinalPositionPreferences) :
       \E w \in EnsureUnique(Selected(picks)) :
           ChoosePowerballPicked("generate_position_based_strategy", picks, w,
                                 MostCommonKeys(pb_freq, 10))

generate_random_strategy ==
    /\ gen_pc = "ready"
    /\ gen_class = "final"
    /\ \E w \in random_sample(AllNumbers(WhiteMax), WhitePerDraw) :
       \E pb \in randint(1, PbMax) :
           Return("generate_random_strategy", w, pb)

\* ------------------------------------------------------------------------
\* UltimateLotteryGenerator
\* ------------------------------------------------------------------------
\* all_preferred: the five preference lists one after the other
AllPreferred ==
    position_preferences[1] \o position_preferences[2] \o position_preferences[3]
        \o position_preferences[4] \o position_preferences[5]

generate_ultimate_strategy ==
    /\ gen_pc = "ready"
    /\ gen_class = "ultimate"
    /\ \E picks \in PositionPicks(position_preferences) :
       \E w \in EnsureUnique(Selected(picks)) :
           ChoosePowerballPicked("generate_ultimate_strategy", picks, w,
                                 MostCommonKeys(CounterOf(gen_powerballs), 10))

generate_super_hot_strategy ==
    /\ gen_pc = "ready"
    /\ gen_class = "ultimate"
    /\ \E hot_count \in randint(4, 5) :
        IF SampleRaises(Keys(hot_numbers), hot_count)
        THEN Raise("generate_super_hot_strategy", "ValueError")
        ELSE \E hot_selected \in random_sample(Keys(hot_numbers), hot_count) :
             \E w \in Completed(hot_selected, AllPreferred) :
                 ChoosePowerball("generate_super_hot_strategy", w,
                                 MostCommonKeys(CounterOf(gen_powerballs), 5))

generate_contrarian_ultimate ==
    /\ gen_pc = "ready"
    /\ gen_class = "ultimate"
    /\ \E cold_count \in randint(4, 5) :
        IF SampleRaises(Keys(cold_numbers), cold_count)
        THEN Raise("generate_contrarian_ultimate", "ValueError")
        ELSE \E cold_selected \in random_sample(Keys(cold_numbers), cold_count) :
             \E w \in Completed(cold_selected,
                                LeastCommonKeys(CounterOf(gen_white_balls), 20)) :
                 ChoosePowerball("generate_contrarian_ultimate", w,
                                 LeastCommonKeys(CounterOf(gen_powerballs), 10))

generate_balanced_ultimate ==
    /\ gen_pc = "ready"
    /\ gen_class = "ultimate"
    /\ \E hot_selected \in SampleUpTo(Keys(hot_numbers), 2) :
       \E cold_selected \in SampleUpTo(Keys(cold_numbers), 2) :
       \E w \in Completed(hot_selected \o cold_selected, AllPreferred) :
       \E frequent \in BOOLEAN :
           ChoosePowerball("generate_balanced_ultimate", w,
                           IF frequent THEN MostCommonKeys(CounterOf(gen_powerballs), 10)
                           ELSE LeastCommonKeys(CounterOf(gen_powerballs), 10))

generate_frequency_weighted ==
    /\ gen_pc = "ready"
    /\ gen_class = "ultimate"
    /\ BeginSampling("generate_frequency_weighted",
                     FrequencyPool(CounterOf(gen_white_balls), WhiteMax, 10))

\* ------------------------------------------------------------------------
\* IntelligentLotteryGenerator
\* ------------------------------------------------------------------------
generate_conservative_numbers ==
    /\ gen_pc = "ready"
    /\ gen_class = "intelligent"
    /\ BeginSampling("generate_conservative_numbers",
                     Weighted(Keys(hot_numbers), 70) \o Weighted(Keys(cold_numbers), 1)
                         \o Weighted(NeutralNumbers(<<>>), 4))

\* neutral_selected = random.sample(neutral_numbers, remaining), then the powerball
NeutralFillPicked(strategy, picks, w, pbs) ==
    LET remaining == WhitePerDraw - Len(w)
        neutral_numbers == NeutralNumbers(w)
    IN  IF SampleRaises(neutral_numbers, remaining)
        THEN Raise(strategy, "ValueError")
        ELSE \E neutral_selected \in random_sample(neutral_numbers, remaining) :
                 ChoosePowerballPicked(strategy, picks, w \o neutral_selected, pbs)

NeutralFill(strategy, w, pbs) == NeutralFillPicked(strategy, <<>>, w, pbs)

\* which branch of the powerball choice was taken, and the list it chose from
PbBranch(branch, pbs) == [branch |-> branch, pbs |-> pbs]

generate_balanced_numbers ==
    /\ gen_pc = "ready"
    /\ gen_class = "intelligent"
    /\ \E hot_count \in randint(2, 3) :
        IF SampleRaises(Keys(hot_numbers), hot_count)
        THEN Raise("generate_balanced_numbers", "ValueError")
        ELSE \E hot_selected \in random_sample(Keys(hot_numbers), hot_count) :
             \E cold_count \in randint(1, 2) :
                IF SampleRaises(Keys(cold_numbers), cold_count)
                THEN Raise("generate_balanced_numbers", "ValueError")
                ELSE \E cold_selected \in random_sample(Keys(cold_numbers), cold_count) :
                     \E coin \in BOOLEAN :
                        NeutralFill("generate_balanced_numbers",
                                    hot_selected \o cold_selected,
                                    IF hot_powerballs # <<>> /\ coin
                                    THEN Keys(hot_powerballs)
                                    ELSE NeutralPbs(hot_powerballs, cold_powerballs))

\* the neutral powerballs of this strategy leave out the cold white balls
\* (self.cold_numbers), not the cold powerballs
generate_contrarian_numbers ==
    /\ gen_pc = "ready"
    /\ gen_class = "intelligent"
    /\ \E cold_count \in randint(3, 4) :
        IF SampleRaises(Keys(cold_numbers), cold_count)
        THEN Raise("generate_contrarian_numbers", "ValueError")
        ELSE \E cold_selected \in random_sample(Keys(cold_numbers), cold_count) :
             \E coin \in BOOLEAN :
                LET pbs == IF cold_powerballs # <<>> /\ coin
                           THEN PbBranch("cold", Keys(cold_powerballs))
                           ELSE PbBranch("neutral", NeutralPbs(hot_powerballs, cold_numbers))
                IN  NeutralFillPicked("generate_contrarian_numbers", <<pbs>>,
                                      cold_selected, pbs.pbs)

generate_pattern_based_numbers ==
    /\ gen_pc = "ready"
    /\ gen_class = "intelligent"
    /\ \E picks \in PositionPicks(SmartPositionPreferences) :
       \E w \in EnsureUnique(Selected(picks)) :
           ChoosePowerballPicked("generate_pattern_based_numbers", picks, w,
                                 MostCommonKeys(CounterOf(gen_powerballs), 10))

generate_random_numbers ==
    /\ gen_pc = "ready"
    /\ gen_class = "intelligent"
    /\ \E w \in random_sample(AllNumbers(WhiteMax), WhitePerDraw) :
       \E pb \in randint(1, PbMax) :
           Return("generate_random_numbers", w, pb)

\* ------------------------------------------------------------------------
\* SmartLotteryGenerator
\* ------------------------------------------------------------------------
\* white_balls.extend(random.sample(available, remaining));
\* powerball = random.randint(1, 26)
RandomFill(strategy, w) ==
    \E rest \in random_sample(Available(w), WhitePerDraw - Len(w)) :
    \E pb \in randint(1, PbMax) :
        Return(strategy, w \o rest, pb)

generate_hot_strategy ==
    /\ gen_pc = "ready"
    /\ gen_class = "smart"
    /\ \E hot_count \in randint(3, 4) :
        IF SampleRaises(Keys(hot_numbers), hot_count)
        THEN Raise("generate_hot_strategy", "ValueError")
        ELSE \E hot_selected \in random_sample(Keys(hot_numbers), hot_count) :
                 RandomFill("generate_hot_strategy", hot_selected)

generate_cold_strategy ==
    /\ gen_pc = "ready"
    /\ gen_class = "smart"
    /\ \E cold_count \in randint(3, 4) :
        IF SampleRaises(Keys(cold_numbers), cold_count)
        THEN Raise("generate_cold_strategy", "ValueError")
        ELSE \E cold_selected \in random_sample(Keys(cold_numbers), cold_count) :
                 RandomFill("generate_cold_strategy", cold_selected)

generate_balanced_strategy ==
    /\ gen_pc = "ready"
    /\ gen_class = "smart"
    /\ \E hot_selected \in SampleUpTo(Keys(hot_numbers), 2) :
       \E cold_selected \in SampleUpTo(Keys(cold_numbers), 2) :
           RandomFill("generate_balanced_strategy", hot_selected \o cold_selected)

generate_position_strategy ==
    /\ gen_pc = "ready"
    /\ gen_class = "smart"
    /\ \E picks \in PositionPicks(SmartPositionPreferences) :
       \E w \in EnsureUnique(Selected(picks)) :
       \E pb \in randint(1, PbMax) :
           Returning("generate_position_strategy", picks, w, pb)

smart_generate_random_strategy ==
    /\ gen_pc = "ready"
    /\ gen_class = "smart"
    /\ \E w \in random_sample(AllNumbers(WhiteMax), WhitePerDraw) :
       \E pb \in randint(1, PbMax) :
           Return("generate_random_strategy", w, pb)

GenNext ==
    \/ GenLoadData
    \/ analyze_all_patterns
    \/ display_numbers
    \/ SamplingStep
    \/ SamplingFinish
    \/ generate_ultimate_hot_strategy
    \/ generate_ultimate_cold_strategy
    \/ generate_ultimate_balanced_strategy
    \/ generate_frequency_weighted_strategy
    \/ generate_position_based_strategy
    \/ generate_random_strategy
    \/ generate_ultimate_strategy
    \/ generate_super_hot_strategy
    \/ generate_contrarian_ultimate
    \/ generate_balanced_ultimate
    \/ generate_frequency_weighted
    \/ generate_conservative_numbers
    \/ generate_balanced_numbers
    \/ generate_contrarian_numbers
    \/ generate_pattern_based_numbers
    \/ generate_random_numbers
    \/ generate_hot_strategy
    \/ generate_cold_strategy
    \/ generate_balanced_strategy
    \/ generate_position_strategy
    \/ smart_generate_random_strategy

SpecGen == GenInit /\ [][GenNext]_vars

\* ------------------------------------------------------------------------
\* Two runs of a generator on the same file
\* ------------------------------------------------------------------------
\* The script is run a second time on the same file: load_data and the
\* analysis compute the same object again, and the random strategy is called
\* again.  Nothing in a generator sets the state of the random module
\* (no seed is taken, random.seed is never called), so a call in the second
\* run can select whatever a call in the first run could.
RunAgain ==
    /\ gen_pc = "returned"
    /\ first_run_set = NoResult
    /\ first_run_set' = gen_result
    /\ gen_pc' = "ready"
    /\ gen_result' = NoResult
    /\ picked' = <<>>
    /\ UNCHANGED <<gen_fields, gen_call, selection_pool, white_balls, attempts>>
    /\ UNCHANGED <<hi_vars, cl_vars, fe_vars, gen_sets>>

RunsNext ==
    \/ GenLoadData
    \/ analyze_all_patterns
    \/ generate_random_strategy
    \/ generate_random_numbers
    \/ smart_generate_random_strategy
    \/ generate_position_based_strategy
    \/ RunAgain

SpecRuns == GenInit /\ [][RunsNext]_vars

\* ------------------------------------------------------------------------
\* generate_final_sets / generate_ultimate_sets / generate_multiple_sets
\* ------------------------------------------------------------------------
Strategy(name, func) == [name |-> name, func |-> func]

\* the list strategies of generate_final_sets
FinalStrategies ==
    << Strategy("Ultimate Hot", "generate_ultimate_hot_strategy"),
       Strategy("Ultimate Cold", "generate_ultimate_cold_strategy"),
       Strategy("Ultimate Balanced", "generate_ultimate_balanced_strategy"),
       Strategy("Frequency-Weighted", "generate_frequency_weighted_strategy"),
       Strategy("Position-Based", "generate_position_based_strategy"),
       Strategy("Random", "generate_random_strategy") >>

\* the list strategies of generate_ultimate_sets
UltimateStrategies ==
    << Strategy("Ultimate Strategy", "generate_ultimate_strategy"),
       Strategy("Super Hot Strategy", "generate_super_hot_strategy"),
       Strategy("Ultimate Contrarian", "generate_contrarian_ultimate"),
       Strategy("Ultimate Balanced", "generate_balanced_ultimate"),
       Strategy("Frequency-Weighted", "generate_frequency_weighted") >>

\* the list strategies of SmartLotteryGenerator.generate_multiple_sets
SmartStrategies ==
    << Strategy("Hot Strategy", "generate_hot_strategy"),
       Strategy("Cold Strategy", "generate_cold_strategy"),
       Strategy("Balanced Strategy", "generate_balanced_strategy"),
       Strategy("Position Strategy", "generate_position_strategy"),
       Strategy("Random Strategy", "generate_random_strategy") >>

\* the list approaches of IntelligentLotteryGenerator.generate_multiple_sets
IntelligentApproaches ==
    << Strategy("Conservative", "generate_conservative_numbers"),
       Strategy("Balanced", "generate_balanced_numbers"),
       Strategy("Contrarian", "generate_contrarian_numbers"),
       Strategy("Pattern-Based", "generate_pattern_based_numbers"),
       Strategy("Random", "generate_random_numbers") >>

StrategiesOf(class) ==
    CASE class = "final" -> FinalStrategies
      [] class = "ultimate" -> UltimateStrategies
      [] class = "smart" -> SmartStrategies
      [] class = "intelligent" -> IntelligentApproaches

\* (mutant for C23) past the end of the list the last strategy is taken
StrategyIndexClamped(i, len) == Min2(i, len - 1)

\* i % len(strategies)
StrategyIndex(i, len) == i % len

\* strategies[i % len(strategies)]; the lists of the model start at 1
StrategyAt(class, i) ==
    StrategiesOf(class)[StrategyIndex(i, Len(StrategiesOf(class))) + 1]

\* generator_func(): the call of the method the list entry holds
Call(func) ==
    CASE func = "generate_ultimate_hot_strategy" -> generate_ultimate_hot_strategy
      [] func = "generate_ultimate_cold_strategy" -> generate_ultimate_cold_strategy
      [] func = "generate_ultimate_balanced_strategy" -> generate_ultimate_balanced_strategy
      [] func = "generate_frequency_weighted_strategy" -> generate_frequency_weighted_strategy
      [] func = "generate_position_based_strategy" -> generate_position_based_strategy
      [] func = "generate_ultimate_strategy" -> generate_ultimate_strategy
      [] func = "generate_super_hot_strategy" -> generate_super_hot_strategy
      [] func = "generate_contrarian_ultimate" -> generate_contrarian_ultimate
      [] func = "generate_balanced_ultimate" -> generate_balanced_ultimate
      [] func = "generate_frequency_weighted" -> generate_frequency_weighted
      [] func = "generate_hot_strategy" -> generate_hot_strategy
      [] func = "generate_cold_strategy" -> generate_cold_strategy
      [] func = "generate_balanced_strategy" -> generate_balanced_strategy
      [] func = "generate_position_strategy" -> generate_position_strategy
      [] func = "generate_conservative_numbers" -> generate_conservative_numbers
      [] func = "generate_balanced_numbers" -> generate_balanced_numbers
      [] func = "generate_contrarian_numbers" -> generate_contrarian_numbers
      [] func = "generate_pattern_based_numbers" -> generate_pattern_based_numbers
      [] func = "generate_random_numbers" -> generate_random_numbers
      [] func = "generate_random_strategy" ->
            IF gen_class = "smart" THEN smart_generate_random_strategy
            ELSE generate_random_strategy

\* the files the generators of this specification are built on: one draw
SetsHistories == {<<row>> : row \in GenRowSet}

\* the values of num_sets: none, one set, and one more than the longest list
NumSetsChoices == {0, 1, Len(FinalStrategies) + 1}

SetsInit ==
    /\ HeatIdle
    /\ ClusterIdle
    /\ FeatIdle
    /\ gen_class \in {"smart", "final", "intelligent", "ultimate"}
    /\ gen_pc = "new"
    /\ gen_df = <<>>
    /\ gen_white_balls = <<>>
    /\ gen_powerballs = <<>>
    /\ hot_numbers = <<>>
    /\ cold_numbers = <<>>
    /\ hot_powerballs = <<>>
    /\ cold_powerballs = <<>>
    /\ white_freq = <<>>
    /\ pb_freq = <<>>
    /\ position_preferences = <<>>
    /\ gen_call = "none"
    /\ selection_pool = <<>>
    /\ white_balls = <<>>
    /\ attempts = 0
    /\ picked = <<>>
    /\ gen_result = NoResult
    /\ num_sets \in NumSetsChoices
    /\ set_i = 0
    /\ generated_sets = <<>>
    /\ first_run_set = NoResult

SetsLoadData == LoadDataOf(SetsHistories)

\* for i in range(num_sets):
\*     strategy_name, generator_func = strategies[i % len(strategies)]
\*     white_balls, powerball = generator_func()
SetsCall ==
    /\ gen_pc = "ready"
    /\ set_i < num_sets
    /\ Call(StrategyAt(gen_class, set_i).func)

\* generated_sets.append((white_balls, powerball, strategy_name)), then
\* display_numbers, and the loop goes on.  produced_by is not part of the
\* tuple: it records the method that returned the set.
SetsAppend ==
    /\ gen_pc = "returned"
    /\ generated_sets' =
            Append(generated_sets,
                   [white_balls |-> gen_result.white_balls,
                    powerball |-> gen_result.powerball,
                    strategy_name |-> StrategyAt(gen_class, set_i).name,
                    produced_by |-> gen_result.strategy])
    /\ set_i' = set_i + 1
    /\ gen_pc' = "ready"
    /\ gen_result' = NoResult
    /\ picked' = <<>>
    /\ UNCHANGED <<gen_fields, gen_call, selection_pool, white_balls, attempts, num_sets>>
    /\ UNCHANGED <<hi_vars, cl_vars, fe_vars, first_run_set>>

\* return generated_sets
SetsReturn ==
    /\ gen_pc = "ready"
    /\ set_i >= num_sets
    /\ gen_pc' = "done"
    /\ UNCHANGED <<gen_fields, gen_locals, gen_result, gen_sets>>
    /\ UNCHANGED <<hi_vars, cl_vars, fe_vars, first_run_set>>

SetsNext ==
    \/ SetsLoadData
    \/ analyze_all_patterns
    \/ SetsCall
    \/ SamplingStep
    \/ SamplingFinish
    \/ SetsAppend
    \/ SetsReturn

SpecSets == SetsInit /\ [][SetsNext]_vars

\* ------------------------------------------------------------------------
\* load_data and prepare_features (advanced_pattern_analyzer.py,
\* advanced_pattern_summary.py)
\* ------------------------------------------------------------------------
\* rolling(window=10), rolling(window=50)
Window10 == 10
Window50 == 50

\* what 'Winning Numbers'.str.split() gives for the rows a file can hold
FeatCatalog ==
    << <<1, 2, 3, 4, 5, 1>>,
       <<5, 3, 1, 4, 2, 1>>,
       <<35, 40, 50, 60, 69, 26>>,
       <<10, 20, 30, 34, 35, 5>>,
       <<2, 4, 36, 38, 67, 10>>,
       <<1, 1, 2, 3, 70, 27>>,
       <<1, 2, 3>>,
       <<1, 2, 3, 4, 5, 6, 7>> >>

CsvRow(date, tokens) == [date |-> date, tokens |-> tokens]

\* a file of the given rows, dated in file order or against it
Dated(rows, descending) ==
    [i \in 1..Len(rows) |->
        CsvRow(IF descending THEN Len(rows) + 1 - i ELSE i, rows[i])]

\* a file of n valid rows with changing sums
LongFile(n) == [i \in 1..n |-> FeatCatalog[(i % 3) + 3]]

FeatFiles ==
    {Dated(rows, descending) :
        rows \in SeqsUpTo(Range(FeatCatalog), MaxRows)
                    \cup {LongFile(n) : n \in {Window10 - 1, Window10 + 1, Window50 + 1}},
        descending \in BOOLEAN}

\* (mutant for C16) the odd balls are counted
EvenCountOdd(numbers) == Cardinality({j \in 1..Len(numbers) : numbers[j] % 2 = 1})
\* sum(1 for num in x if num % 2 == 0)
EvenCount(numbers) == Cardinality({j \in 1..Len(numbers) : numbers[j] % 2 = 0})

\* 5 - self.df['Even_Count']
OddCount(even_count) == 5 - even_count

\* (mutant for C18) the balls are taken in the order given
UnsortedNums(numbers) == numbers
\* sorted_nums = sorted(numbers)
SortedNums(numbers) == sorted(numbers)

\* gaps = [sorted_nums[i+1] - sorted_nums[i] for i in range(len(sorted_nums) - 1)]
Gaps(numbers) ==
    LET sorted_nums == SortedNums(numbers)
    IN  [i \in 1..(Len(sorted_nums) - 1) |-> sorted_nums[i + 1] - sorted_nums[i]]

\* _count_consecutive_pairs
count_consecutive_pairs(numbers) ==
    LET sorted_nums == SortedNums(numbers)
    IN  Cardinality({i \in 1..(Len(sorted_nums) - 1) :
                        sorted_nums[i + 1] - sorted_nums[i] = 1})

\* a real number kept exactly, as the fraction num / den
Fraction(num, den) == [num |-> num, den |-> den]

Squares(s) == [i \in 1..Len(s) |-> s[i] * s[i]]

\* _calculate_gap_variance: np.var(gaps), the population variance
\* (m * sum(g^2) - sum(g)^2) / m^2 of the m gaps, 0 without gaps
calculate_gap_variance(numbers) ==
    LET gaps == Gaps(numbers)
        m == Len(gaps)
    IN  IF m > 0
        THEN Fraction(m * SumSeq(Squares(gaps)) - SumSeq(gaps) * SumSeq(gaps), m * m)
        ELSE Fraction(0, 1)

\* (mutant for C17) the ratio without the cap
calculate_low_high_ratio_uncapped(numbers) ==
    LET low_count == Cardinality({j \in 1..Len(numbers) : numbers[j] <= 34})
    IN  Fraction(low_count, 5 - low_count)

\* _calculate_low_high_ratio
calculate_low_high_ratio(numbers) ==
    LET low_count == Cardinality({j \in 1..Len(numbers) : numbers[j] <= 34})
        high_count == 5 - low_count
    IN  IF high_count > 0 THEN Fraction(low_count, high_count) ELSE Fraction(5, 1)

\* NaN: the entry of a rolling column where the window is not filled
NoValue == [defined |-> FALSE, num |-> 0, den |-> 1]
Value(num, den) == [defined |-> TRUE, num |-> num, den |-> den]

\* the rows a window ending at row i holds
WindowOf(series, window, i) == SubSeq(series, i - window + 1, i)

\* series.rolling(window).mean() at row i (min_periods defaults to window)
RollingMean(series, window, i) ==
    IF i < window THEN NoValue
    ELSE Value(SumSeq(WindowOf(series, window, i)), window)

\* series.rolling(window).std() at row i, squared: the sample variance
\* (w * sum(x^2) - sum(x)^2) / (w * (w - 1))
RollingVar(series, window, i) ==
    IF i < window THEN NoValue
    ELSE LET x == WindowOf(series, window, i)
         IN  Value(window * SumSeq(Squares(x)) - SumSeq(x) * SumSeq(x),
                   window * (window - 1))

\* (mutant for C19) the rows are put in date order before the windows are taken
RollingOrderByDate(df) == StableSort(df, LAMBDA a, b : a.date < b.date)

\* the order of the rows the rolling columns are computed in: that of self.df
RollingOrder(df) == df

\* self.df['Sum']
SumColumn(df) == [i \in 1..Len(df) |-> SumSeq(df[i].white_balls)]

\* x[:5] and x[5] of one row
ParseRow(row) ==
    [date |-> row.date,
     white_balls |-> SubSeq(row.tokens, 1, Min2(WhitePerDraw, Len(row.tokens))),
     powerball |-> row.tokens[WhitePerDraw + 1]]

\* int(x[5]) raises IndexError on a row of fewer than 6 tokens
ParseRaises(rows) == \E i \in 1..Len(rows) : Len(rows[i].tokens) < WhitePerDraw + 1

FeatInit ==
    /\ HeatIdle
    /\ ClusterIdle
    /\ GenIdle
    /\ fe_pc = "new"
    /\ fe_rows = <<>>
    /\ fe_df = <<>>
    /\ features = <<>>
    /\ fe_error = "none"

FeatLoadData ==
    /\ fe_pc = "new"
    /\ \E file \in FeatFiles :
        /\ fe_rows' = file
        /\ IF ParseRaises(file)
           THEN /\ fe_pc' = "failed"
                /\ fe_error' = "IndexError"
                /\ UNCHANGED fe_df
           ELSE IF LoadDataRaises(Len(file))
           THEN /\ fe_pc' = "failed"
                /\ fe_error' = "ValueError"
                /\ UNCHANGED fe_df
           ELSE /\ fe_pc' = "loaded"
                /\ fe_df' = [i \in 1..Len(file) |-> ParseRow(file[i])]
                /\ UNCHANGED fe_error
    /\ UNCHANGED features
    /\ UNCHANGED <<hi_vars, cl_vars, gen_vars>>

\* the columns Sum, Even_Count, Odd_Count, Consecutive_Pairs, Gap_Variance,
\* Low_High_Ratio, Sum_MA_10, Sum_MA_50 and Sum_Std_10 (the latter as its square)
prepare_features ==
    /\ fe_pc = "loaded"
    /\ LET sums == SumColumn(RollingOrder(fe_df))
       IN  features' =
            [i \in 1..Len(fe_df) |->
                [Sum |-> SumSeq(fe_df[i].white_balls),
                 Even_Count |-> EvenCount(fe_df[i].white_balls),
                 Odd_Count |-> OddCount(EvenCount(fe_df[i].white_balls)),
                 Consecutive_Pairs |-> count_consecutive_pairs(fe_df[i].white_balls),
                 Gap_Variance |-> calculate_gap_variance(fe_df[i].white_balls),
                 Low_High_Ratio |-> calculate_low_high_ratio(fe_df[i].white_balls),
                 Sum_MA_10 |-> RollingMean(sums, Window10, i),
                 Sum_MA_50 |-> RollingMean(sums, Window50, i),
                 Sum_Var_10 |-> RollingVar(sums, Window10, i)]]
    /\ fe_pc' = "ready"
    /\ UNCHANGED <<fe_rows, fe_df, fe_error>>
    /\ UNCHANGED <<hi_vars, cl_vars, gen_vars>>

FeatNext ==
    \/ FeatLoadData
    \/ prepare_features

SpecFeat == FeatInit /\ [][FeatNext]_vars

\* ------------------------------------------------------------------------
\* Properties of HeatIndexRankings
\* ------------------------------------------------------------------------
HeatDone == hi_pc \in {"ready", "failed"}

Hundred(t) == HeatConst(HeatMax100, t[1].heat_index.rad)
Zero(t) == HeatConst(0, t[1].heat_index.rad)
Fifty(t) == HeatConst(HeatMid100, t[1].heat_index.rad)

CatRank(c) ==
    CASE c = "FREEZING" -> 0
      [] c = "COLD" -> 1
      [] c = "COOL" -> 2
      [] c = "NEUTRAL" -> 3
      [] c = "WARM" -> 4
      [] c = "HOT" -> 5
      [] c = "BLAZING HOT" -> 6

RankedDescTiesAscending(t) ==
    \A i \in 1..Len(t) : \A j \in (i + 1)..Len(t) :
        \/ HeatCmp(t[i].heat_index, t[j].heat_index) > 0
        \/ /\ HeatCmp(t[i].heat_index, t[j].heat_index) = 0
           /\ t[i].number < t[j].number

\* C4: each heat table is in descending heat_index order, and entries with
\* equal heat_index (the clamped ones included) are in ascending number order.
C4_RankedTable ==
    hi_pc = "ready" =>
        /\ RankedDescTiesAscending(white_heat_data)
        /\ RankedDescTiesAscending(pb_heat_data)

TiedAt(t, h) ==
    \E i, j \in 1..Len(t) :
        /\ i # j
        /\ HeatCmp(t[i].heat_index, h) = 0
        /\ HeatCmp(t[j].heat_index, h) = 0

\* a table with several entries clamped to 100, several clamped to 0, and
\* two unclamped entries with equal heat_index
C4_Witness ==
    /\ hi_pc = "ready"
    /\ TiedAt(white_heat_data, Hundred(white_heat_data))
    /\ TiedAt(white_heat_data, Zero(white_heat_data))
    /\ \E i, j \in 1..Len(white_heat_data) :
        /\ i # j
        /\ white_heat_data[i].heat_index.k # 0
        /\ white_heat_data[i].heat_index = white_heat_data[j].heat_index

MonotoneInZ(t) ==
    \A i, j \in 1..Len(t) :
        /\ (ZOrder(t[i].z_score, t[j].z_score) > 0) <=> (t[i].frequency > t[j].frequency)
        /\ ZOrder(t[i].z_score, t[j].z_score) > 0 =>
            /\ HeatCmp(t[i].heat_index, t[j].heat_index) >= 0
            /\ CatRank(t[i].category) >= CatRank(t[j].category)

HeatInRange(t) ==
    \A i \in 1..Len(t) :
        /\ HeatCmp(t[i].heat_index, Zero(t)) >= 0
        /\ HeatCmp(t[i].heat_index, Hundred(t)) <= 0

\* C5: within a domain a higher z_score (that is, a higher observed count)
\* never has a lower heat_index or a colder category, and every heat_index
\* lies in [0, 100].
C5_MonotoneAndBounded ==
    hi_pc = "ready" =>
        /\ MonotoneInZ(white_heat_data) /\ HeatInRange(white_heat_data)
        /\ MonotoneInZ(pb_heat_data) /\ HeatInRange(pb_heat_data)

\* a table in which the raw value 50 + 16.67 z is above 100 for one number
\* and below 0 for another, and a strictly hotter category goes with a
\* strictly higher z_score
C5_Witness ==
    /\ hi_pc = "ready"
    /\ \E i, j \in 1..Len(white_heat_data) :
        /\ HeatCmp(HeatRaw(white_heat_data[i].z_score), Hundred(white_heat_data)) > 0
        /\ HeatCmp(HeatRaw(white_heat_data[j].z_score), Zero(white_heat_data)) < 0
    /\ \E i, j \in 1..Len(pb_heat_data) :
        /\ ZOrder(pb_heat_data[i].z_score, pb_heat_data[j].z_score) > 0
        /\ CatRank(pb_heat_data[i].category) > CatRank(pb_heat_data[j].category)

\* the category the threshold table gives: each row is lower <= z < upper
InBand(z, lo, loq, hi, hiq) == ZCmp(z, lo, loq) >= 0 /\ ZCmp(z, hi, hiq) < 0

BandsOf(z) ==
    {c \in {"BLAZING HOT", "HOT", "WARM", "NEUTRAL", "COOL", "COLD", "FREEZING"} :
        \/ c = "BLAZING HOT" /\ ZCmp(z, 2, 1) >= 0
        \/ c = "HOT" /\ InBand(z, 1, 1, 2, 1)
        \/ c = "WARM" /\ InBand(z, 1, 2, 1, 1)
        \/ c = "NEUTRAL" /\ InBand(z, -1, 2, 1, 2)
        \/ c = "COOL" /\ InBand(z, -1, 1, -1, 2)
        \/ c = "COLD" /\ InBand(z, -2, 1, -1, 1)
        \/ c = "FREEZING" /\ ZCmp(z, -2, 1) < 0}

CategoryMatchesBands(t) ==
    \A i \in 1..Len(t) : BandsOf(t[i].z_score) = {t[i].category}

HasZ(t, p, q, c) ==
    \E i \in 1..Len(t) : ZCmp(t[i].z_score, p, q) = 0 /\ t[i].category = c

SumFrequency(t) == SumSeq([i \in 1..Len(t) |-> t[i].frequency])

\* C7: the observed counts of the white-ball table add up to 5 times the
\* number of draws, those of the powerball table to the number of draws.
C7_CountsAddUp ==
    hi_pc = "ready" =>
        /\ Len(white_heat_data) = WhiteMax
        /\ Len(pb_heat_data) = PbMax
        /\ SumFrequency(white_heat_data) = 5 * NumDraws(hi_df)
        /\ SumFrequency(pb_heat_data) = NumDraws(hi_df)

\* a tallied history of several rows in which a number recurs
C7_Witness ==
    /\ hi_pc = "ready"
    /\ NumDraws(hi_df) >= 3
    /\ Len(hi_df) >= 2
    /\ \E i \in 1..Len(white_heat_data) : white_heat_data[i].frequency >= 2

AtExpectedIsNeutral(t, list) ==
    \A i \in 1..Len(t) :
        t[i].frequency * Len(t) = LenRL(list) =>
            /\ ZCmp(t[i].z_score, 0, 1) = 0
            /\ HeatCmp(t[i].heat_index, Fifty(t)) = 0
            /\ t[i].category = "NEUTRAL"

ClusterEnded == cl_pc \in {"done", "failed"}

SweptKs == [i \in 1..Len(scores) |-> scores[i][1]]

\* C10 as stated: on every input of at least 4 draws the selection evaluates
\* the six candidates k = 2..7 in ascending order and returns a k in 2..7
\* whose measured score is the reported best score, within [-1, 1] and not
\* below any score of the sweep.
C10_AsStated ==
    (ClusterEnded /\ cl_n >= 4) =>
        /\ cl_pc = "done"
        /\ SweptKs = <<2, 3, 4, 5, 6, 7>>
        /\ cluster_k = best_k
        /\ best_k \in KMin..KMax
        /\ <<best_k, best_score>> \in Range(scores)
        /\ best_score >= -10 /\ best_score <= 10
        /\ \A i \in 1..Len(scores) : best_score >= scores[i][2]

MaxScore(sc) == CHOOSE m \in {sc[i][2] : i \in 1..Len(sc)} :
                    \A i \in 1..Len(sc) : sc[i][2] <= m

\* the k measured first among those with the highest score
FirstArgMax(sc) ==
    sc[CHOOSE i \in 1..Len(sc) :
        /\ sc[i][2] = MaxScore(sc)
        /\ \A j \in 1..(i - 1) : sc[j][2] < MaxScore(sc)][1]

\* C11 as stated: in both implementations, whatever the six scores of the
\* sweep, the chosen k is the first k of the sweep attaining the highest score.
C11_AsStated ==
    cl_pc = "done" => best_k = FirstArgMax(scores)

\* C11 (amended): after every iteration of the sweep, if some score measured
\* so far is above -1 then best_k is the first k attaining the highest score
\* so far and best_score is that score (a later k replaces the best only with
\* a strictly greater score, never with an equal one); if every score so far
\* is -1, best_k is still the initial value, 3 in the analyzer and 2 in the
\* summary.
C11_FirstMaxWins ==
    (cl_pc \in {"sweep", "done"} /\ scores # <<>>) =>
        IF MaxScore(scores) > InitialBestScore
        THEN best_k = FirstArgMax(scores) /\ best_score = MaxScore(scores)
        ELSE best_k = InitialBestK(cl_impl) /\ best_score = InitialBestScore

\* a completed sweep in which two k share the highest score and the earlier
\* one was chosen
C11_Witness ==
    /\ cl_pc = "done"
    /\ Len(scores) = KMax - KMin + 1
    /\ MaxScore(scores) > InitialBestScore
    /\ \E i, j \in 1..Len(scores) :
        /\ i < j
        /\ scores[i][2] = MaxScore(scores)
        /\ scores[j][2] = MaxScore(scores)
        /\ best_k = scores[i][1]

\* C12: a completed selection stores one label of 0..k-1 per draw for the
\* chosen k, the labels that k had when it was scored in the sweep; a second
\* run on the same draws, whatever the state of the global random generator,
\* measures the same scores, chooses the same k and stores the same labels.
C12_Reproducible ==
    cl_pc = "done" =>
        /\ Len(cluster_labels) = cl_n
        /\ \A i \in 1..Len(cluster_labels) : cluster_labels[i] \in 0..(best_k - 1)
        /\ \E i \in 1..Len(scores) :
            /\ scores[i][1] = best_k
            /\ sweep_labels[i] = cluster_labels
        /\ cl_run = 2 =>
            /\ scores = cl_first.scores
            /\ best_k = cl_first.best_k
            /\ cluster_labels = cl_first.cluster_labels

\* a second run has completed from another state of the global generator,
\* with a chosen k for which the labelling depends on the random state
C12_Witness ==
    /\ cl_pc = "done"
    /\ cl_run = 2
    /\ np_random # 0
    /\ KMeansLabels(cl_n, cl_distinct, best_k, np_random) # cluster_labels

ValidSet(r) ==
    /\ Len(r.white_balls) = WhitePerDraw
    /\ \A i \in 1..Len(r.white_balls) : r.white_balls[i] \in WhiteDomain
    /\ \A i \in 1..(Len(r.white_balls) - 1) : r.white_balls[i] < r.white_balls[i + 1]
    /\ r.powerball \in PbDomain

\* C1 as stated: whenever a strategy of a generator built on a non-empty
\* history returns, the result is 5 pairwise-distinct white balls of 1..69 in
\* strictly ascending order and one powerball of 1..26.
C1_AsStated == gen_pc = "returned" => ValidSet(gen_result)

\* C13 as stated: a second run on the same draw history generates the set
\* the first run generated with the same strategy: the randomness of a run
\* is fixed by what the caller hands to the generator.
C13_AsStated ==
    (gen_pc = "returned" /\ first_run_set # NoResult
        /\ gen_result.strategy = first_run_set.strategy) =>
            gen_result = first_run_set

\* the hot- and cold-biased strategies, each with the pool it takes from
HotBiased ==
    {"generate_ultimate_hot_strategy", "generate_hot_strategy", "generate_super_hot_strategy"}
ColdBiased ==
    {"generate_ultimate_cold_strategy", "generate_cold_strategy",
     "generate_contrarian_ultimate"}

BiasPool(strategy) ==
    IF strategy \in HotBiased THEN Keys(hot_numbers) ELSE Keys(cold_numbers)

\* C2 as stated: a hot- or cold-biased strategy called on a pool of only 1 or
\* 2 numbers, fewer than it wants, never fails; it returns a valid set that
\* keeps the numbers of the pool.
C2_AsStated ==
    (gen_result.strategy \in HotBiased \cup ColdBiased
        /\ Len(BiasPool(gen_result.strategy)) \in 1..2) =>
            /\ gen_pc # "raised"
            /\ gen_pc = "returned" =>
                /\ ValidSet(gen_result)
                /\ Range(BiasPool(gen_result.strategy)) \subseteq Range(gen_result.white_balls)

PoolNumbers(pool) == {pool[i].num : i \in {j \in 1..Len(pool) : pool[j].weight > 0}}

Distinct(s) == \A i, j \in 1..Len(s) : i # j => s[i] # s[j]

PositionStrategies ==
    {"generate_position_based_strategy", "generate_ultimate_strategy",
     "generate_pattern_based_numbers", "generate_position_strategy"}

PreferencesOf(strategy) ==
    CASE strategy = "generate_position_based_strategy" -> FinalPositionPreferences
      [] strategy = "generate_ultimate_strategy" -> position_preferences
      [] OTHER -> SmartPositionPreferences

\* C20: a position-based strategy that returns has selected, for each of the
\* 5 positions, one value of that position's preference list, by the branch
\* for the hot numbers only a value that is also in the hot list; every
\* selected value is in the returned set, which is 5 pairwise-distinct numbers
\* of 1..69 in ascending order (so what the duplicates left open was filled
\* with numbers not selected before).
C20_PositionBased ==
    (gen_pc = "returned" /\ gen_result.strategy \in PositionStrategies) =>
        /\ Len(picked) = WhitePerDraw
        /\ \A pos \in 1..Len(picked) :
            /\ picked[pos].num \in Range(PreferencesOf(gen_result.strategy)[pos])
            /\ picked[pos].hot => picked[pos].num \in Range(Keys(hot_numbers))
            /\ picked[pos].num \in Range(gen_result.white_balls)
        /\ ValidSet(gen_result)

\* the ultimate strategy has returned after selecting the same value for two
\* positions, one value by the branch for the hot numbers
C20_Witness ==
    /\ gen_pc = "returned"
    /\ gen_result.strategy = "generate_ultimate_strategy"
    /\ \E i, j \in 1..Len(picked) : i # j /\ picked[i].num = picked[j].num
    /\ \E i \in 1..Len(picked) : picked[i].hot

\* ------------------------------------------------------------------------
\* Properties of load_data and prepare_features
\* ------------------------------------------------------------------------
\* a row that is a draw: five distinct white balls in 1..69 and a powerball
\* in 1..26
ValidDrawRow(row) ==
    /\ Len(row.tokens) = WhitePerDraw + 1
    /\ \A j \in 1..WhitePerDraw : row.tokens[j] \in WhiteDomain
    /\ \A j, k \in 1..WhitePerDraw : j # k => row.tokens[j] # row.tokens[k]
    /\ row.tokens[WhitePerDraw + 1] \in PbDomain

\* the white balls of row i as the file gives them
RawWhite(i) == SubSeq(fe_rows[i].tokens, 1, WhitePerDraw)

\* C15 (as stated): once the file has been read, a row that is not a valid
\* draw (white-ball count other than 5, a white ball outside 1..69, a powerball
\* outside 1..26, a repeated white ball) has ended the extraction with
\* InvalidDrawError and no feature vector exists.
C15_AsStated ==
    (fe_pc # "new" /\ \E i \in 1..Len(fe_rows) : ~ValidDrawRow(fe_rows[i])) =>
        /\ fe_pc = "failed"
        /\ fe_error = "InvalidDrawError"
        /\ features = <<>>

\* C16: for every draw of the feature table, Even_Count is the number of even
\* white balls, Odd_Count is the number of odd white balls, and they add up to 5.
C16_EvenOdd ==
    fe_pc = "ready" =>
        \A i \in 1..Len(features) :
            /\ features[i].Even_Count =
                    Cardinality({j \in 1..WhitePerDraw : RawWhite(i)[j] % 2 = 0})
            /\ features[i].Odd_Count =
                    Cardinality({j \in 1..WhitePerDraw : RawWhite(i)[j] % 2 = 1})
            /\ features[i].Even_Count + features[i].Odd_Count = 5

C16_Witness ==
    /\ fe_pc = "ready"
    /\ \E i, j \in 1..Len(features) :
        /\ features[i].Even_Count = 2 /\ features[i].Odd_Count = 3
        /\ features[j].Even_Count = 3 /\ features[j].Odd_Count = 2


LowBalls(i) == Cardinality({j \in 1..WhitePerDraw : RawWhite(i)[j] <= 34})
HighBalls(i) == Cardinality({j \in 1..WhitePerDraw : RawWhite(i)[j] >= 35})

\* a / b < c / d, for positive b and d
FractionLess(x, y) == x.num * y.den < y.num * x.den

\* C17: for every draw, Low_High_Ratio is the count of white balls <= 34
\* divided by the count of white balls >= 35 when the latter is positive and
\* exactly 5 when it is zero; it is a finite number, never above 5, and of two
\* draws the one with more low balls has the strictly larger ratio.
C17_LowHighRatio ==
    fe_pc = "ready" =>
        /\ \A i \in 1..Len(features) :
            /\ features[i].Low_High_Ratio.den > 0
            /\ IF HighBalls(i) > 0
               THEN features[i].Low_High_Ratio.num * HighBalls(i) =
                        LowBalls(i) * features[i].Low_High_Ratio.den
               ELSE features[i].Low_High_Ratio = Fraction(5, 1)
            /\ ~FractionLess(Fraction(5, 1), features[i].Low_High_Ratio)
        /\ \A i, j \in 1..Len(features) :
            LowBalls(i) < LowBalls(j) =>
                FractionLess(features[i].Low_High_Ratio, features[j].Low_High_Ratio)

C17_Witness ==
    /\ fe_pc = "ready"
    /\ \E i, j \in 1..Len(features) :
        /\ LowBalls(i) = 4 /\ features[i].Low_High_Ratio = Fraction(4, 1)
        /\ HighBalls(j) = 0 /\ features[j].Low_High_Ratio = Fraction(5, 1)

\* the values of the white balls of row i
WhiteValues(i) == Range(RawWhite(i))

\* C18: for every draw, Consecutive_Pairs is the number of values of the draw
\* whose successor is also in the draw when the balls are distinct, whatever
\* the order of the balls; it lies in 0..4; two rows holding the same balls in
\* different orders have equal Consecutive_Pairs and Gap_Variance; and a draw
\* of five consecutive integers has Consecutive_Pairs 4 and Gap_Variance 0.
C18_ConsecutivePairs ==
    fe_pc = "ready" =>
        /\ \A i \in 1..Len(features) :
            /\ features[i].Consecutive_Pairs \in 0..4
            /\ Cardinality(WhiteValues(i)) = WhitePerDraw =>
                features[i].Consecutive_Pairs =
                    Cardinality({v \in WhiteValues(i) : v + 1 \in WhiteValues(i)})
            /\ (\E a \in WhiteValues(i) : WhiteValues(i) = a..(a + 4)) =>
                /\ features[i].Consecutive_Pairs = 4
                /\ features[i].Gap_Variance.num = 0
        /\ \A i, j \in 1..Len(features) :
            sorted(RawWhite(i)) = sorted(RawWhite(j)) =>
                /\ features[i].Consecutive_Pairs = features[j].Consecutive_Pairs
                /\ features[i].Gap_Variance = features[j].Gap_Variance

C18_Witness ==
    /\ fe_pc = "ready"
    /\ \E i, j \in 1..Len(features) :
        /\ RawWhite(i) = <<5, 3, 1, 4, 2>>
        /\ RawWhite(j) = <<1, 2, 3, 4, 5>>
        /\ features[i].Consecutive_Pairs = 4
        /\ features[i].Gap_Variance.num = 0

\* the sums of the white balls of rows first..last of the file
RawSums(first, last) ==
    [j \in 1..(last - first + 1) |-> SumSeq(RawWhite(first + j - 1))]

\* C19: at row i of the file, in file order whatever the dates, Sum_MA_10 and
\* Sum_Std_10 have no value when i < 10 and are otherwise the mean and the
\* sample deviation of the sums of rows i-9..i; Sum_MA_50 has no value when
\* i < 50 and is otherwise the mean of the sums of rows i-49..i.
C19_Rolling ==
    fe_pc = "ready" =>
        \A i \in 1..Len(features) :
            /\ features[i].Sum_MA_10.defined <=> i >= 10
            /\ features[i].Sum_Var_10.defined <=> i >= 10
            /\ features[i].Sum_MA_50.defined <=> i >= 50
            /\ i >= 10 =>
                LET x == RawSums(i - 9, i)
                IN  /\ features[i].Sum_MA_10 = Value(SumSeq(x), 10)
                    /\ features[i].Sum_Var_10 =
                            Value(10 * SumSeq(Squares(x)) - SumSeq(x) * SumSeq(x), 90)
            /\ i >= 50 =>
                features[i].Sum_MA_50 = Value(SumSeq(RawSums(i - 49, i)), 50)

C19_Witness ==
    /\ fe_pc = "ready"
    /\ Len(features) > 50
    /\ fe_rows[1].date > fe_rows[2].date
    /\ ~features[9].Sum_MA_10.defined
    /\ features[10].Sum_MA_10.defined
    /\ features[10].Sum_MA_10 # features[11].Sum_MA_10
    /\ ~features[49].Sum_MA_50.defined
    /\ features[50].Sum_MA_50 # features[51].Sum_MA_50

\* ------------------------------------------------------------------------
\* Properties of the generators: pools, state, classification
\* ------------------------------------------------------------------------
FrequencyStrategies ==
    {"generate_frequency_weighted_strategy", "generate_frequency_weighted"}

\* how many times a pool holds n
RECURSIVE SumWeights(_, _)
SumWeights(pool, runs) ==
    IF runs = {} THEN 0
    ELSE LET i == CHOOSE j \in runs : TRUE
         IN  pool[i].weight + SumWeights(pool, runs \ {i})

PoolWeight(pool, n) == SumWeights(pool, {i \in 1..Len(pool) : pool[i].num = n})

\* the whole number of times unit goes into count
Quotient(count, unit) == CHOOSE q \in 0..count : unit * q <= count /\ count < unit * (q + 1)

WhiteCount(n) == CountRL(gen_white_balls, n)
PbCount(n) == CountRL(gen_powerballs, n)

\* the weights of a frequency-weighted strategy, when its loop starts
FrequencyWeights ==
    (gen_pc = "sampling" /\ gen_call \in FrequencyStrategies /\ white_balls = <<>>) =>
        LET pb_pool == PbPool(gen_call)
            white_weight == [n \in WhiteDomain |-> PoolWeight(selection_pool, n)]
            pb_weight == [n \in PbDomain |-> PoolWeight(pb_pool, n)]
            white_count == [n \in WhiteDomain |-> WhiteCount(n)]
            pb_count == [n \in PbDomain |-> PbCount(n)]
        IN  /\ PoolNumbers(selection_pool) = WhiteDomain
            /\ PoolNumbers(pb_pool) = PbDomain
            /\ \A n \in WhiteDomain :
                white_weight[n] = Max2(1, Quotient(white_count[n], 10))
            /\ \A n \in PbDomain :
                pb_weight[n] = Max2(1, Quotient(pb_count[n], 5))
            /\ \A a, b \in {<<white_count[n], white_weight[n]>> : n \in WhiteDomain} :
                a[1] <= b[1] => a[2] <= b[2]
            /\ \A a, b \in {<<pb_count[n], pb_weight[n]>> : n \in PbDomain} :
                a[1] <= b[1] => a[2] <= b[2]

\* C21: in a frequency-weighted strategy the sampling pool holds, when the
\* loop starts, each white ball n of 1..69 exactly max(1, observed_count(n) / 10)
\* times and the powerball pool each powerball of 1..26 exactly
\* max(1, observed_count / 5) times (whole quotients), and nothing else; so
\* every number of the domain is in its pool, and of two numbers the one
\* observed more often has no smaller weight.  While the loop runs, the pool
\* and the counts it was built from stay as they are.
C21_FrequencyWeights ==
    /\ []FrequencyWeights
    /\ [][(gen_pc = "sampling" /\ gen_pc' = "sampling") =>
            /\ selection_pool' = selection_pool
            /\ gen_call' = gen_call
            /\ gen_fields' = gen_fields]_vars

\* a pool in which a white ball drawn 76 times weighs 7, one never drawn 1,
\* and a powerball drawn 76 times weighs 15
C21_Witness ==
    /\ gen_pc = "sampling"
    /\ gen_call \in FrequencyStrategies
    /\ \E n, m \in WhiteDomain :
        /\ WhiteCount(n) = 0 /\ PoolWeight(selection_pool, n) = 1
        /\ WhiteCount(m) = 76 /\ PoolWeight(selection_pool, m) = 7
    /\ \E n \in PbDomain : PbCount(n) = 76 /\ PoolWeight(PbPool(gen_call), n) = 15

\* once the analysis is done
Analysed == gen_pc \notin {"new", "loaded"}

\* nothing of a strategy call is left when the next call starts
NothingLeftOver ==
    gen_pc = "ready" =>
        /\ gen_call = "none"
        /\ selection_pool = <<>>
        /\ white_balls = <<>>
        /\ attempts = 0
        /\ picked = <<>>
        /\ gen_result = NoResult

\* C22: once the analysis is done, no step of any generate_* call changes the
\* analysis state (the draw history and its flattened lists, the hot and cold
\* number lists, the hot and cold powerball lists, the frequency tables, the
\* position preferences), and when a call starts nothing of the calls before
\* it is left in the object: a call starts from the state every call starts
\* from, whatever calls were made before.
C22_NoCrossCallState ==
    /\ [][Analysed => gen_fields' = gen_fields]_vars
    /\ []NothingLeftOver

\* the seventh call of generate_final_sets, made after each of the six
\* strategies has been called once, has returned
C22_Witness ==
    /\ gen_pc = "returned"
    /\ set_i = 6
    /\ Len(generated_sets) = 6
    /\ \A i, j \in 1..6 : i # j => generated_sets[i].produced_by # generated_sets[j].produced_by
    /\ gen_result.strategy = "generate_ultimate_hot_strategy"
    /\ hot_numbers # <<>>

\* the entry of the strategy list that generates set number k (from 1)
ExpectedStrategy(k) ==
    LET strategies == StrategiesOf(gen_class)
    IN  strategies[((k - 1) % Len(strategies)) + 1]

\* set number k was generated by the strategy due and carries its name
SetsTagged ==
    /\ Len(generated_sets) = set_i
    /\ set_i <= num_sets
    /\ \A k \in 1..Len(generated_sets) :
        /\ generated_sets[k].strategy_name = ExpectedStrategy(k).name
        /\ generated_sets[k].produced_by = ExpectedStrategy(k).func
    /\ gen_pc = "done" => Len(generated_sets) = num_sets

\* C23: when generate_final_sets(n) (generate_ultimate_sets, generate_multiple_sets)
\* returns, its list holds exactly n sets; at every moment the list holds the
\* sets generated so far in generation order (a step leaves the list as it is
\* or appends the set just returned to its end), and the i-th set (counting
\* from 0) was produced by the strategy at index i modulo the length of the
\* strategy list and carries that strategy's name.
C23_GeneratedSets ==
    /\ []SetsTagged
    /\ [][\/ generated_sets' = generated_sets
          \/ /\ gen_pc = "returned"
             /\ Len(generated_sets') = Len(generated_sets) + 1
             /\ SubSeq(generated_sets', 1, Len(generated_sets)) = generated_sets
             /\ generated_sets'[Len(generated_sets')].white_balls = gen_result.white_balls
             /\ generated_sets'[Len(generated_sets')].powerball = gen_result.powerball]_vars

\* generate_final_sets(7) has returned: the seventh set comes from the first
\* strategy again
C23_Witness ==
    /\ gen_pc = "done"
    /\ gen_class = "final"
    /\ num_sets = 7
    /\ Len(generated_sets) = 7
    /\ generated_sets[6].strategy_name = "Random"
    /\ generated_sets[7].strategy_name = "Ultimate Hot"
    /\ generated_sets[7].produced_by = "generate_ultimate_hot_strategy"

\* the powerballs of 1..26 that are neither a hot nor a cold powerball
NeutralPowerballs == PbDomain \ (Range(Keys(hot_powerballs)) \cup Range(Keys(cold_powerballs)))

\* C24 (as stated): when the contrarian strategy of the intelligent generator
\* returns without having taken the cold-powerball branch, the list the
\* powerball was chosen from holds exactly the neutral powerballs of 1..26, and
\* the powerball returned is neither a hot nor a cold powerball.
C24_AsStated ==
    (gen_pc = "returned" /\ gen_result.strategy = "generate_contrarian_numbers"
        /\ picked[1].branch = "neutral") =>
            /\ Range(picked[1].pbs) = NeutralPowerballs
            /\ gen_result.powerball \in NeutralPowerballs

\* how many numbers of a returned set are on a list of (number, count) pairs
CountOn(balls, list) == Cardinality({i \in 1..Len(balls) : balls[i] \in Range(Keys(list))})

\* C25 (as stated): every set returned by the balanced approach of the
\* intelligent generator holds 2 or 3 hot numbers, 1 or 2 cold numbers and 1 or
\* 2 numbers that are neither hot nor cold.
C25_AsStated ==
    (gen_pc = "returned" /\ gen_result.strategy = "generate_balanced_numbers") =>
        LET hot_count == CountOn(gen_result.white_balls, hot_numbers)
            cold_count == CountOn(gen_result.white_balls, cold_numbers)
            neutral_count == Len(gen_result.white_balls) - hot_count - cold_count
        IN  /\ hot_count \in 2..3
            /\ cold_count \in 1..2
            /\ neutral_count \in 1..2

\* ------------------------------------------------------------------------
\* The rejection-sampling loop under fair random choice
\* ------------------------------------------------------------------------
\* an iteration whose draw is a number not yet in white_balls
NewNumber == SamplingStep /\ white_balls' # white_balls

\* the generators run only the strategies that have the loop
LoopNext ==
    \/ GenLoadData
    \/ analyze_all_patterns
    \/ generate_frequency_weighted_strategy
    \/ generate_frequency_weighted
    \/ generate_conservative_numbers
    \/ SamplingStep
    \/ SamplingFinish
    \/ display_numbers

\* random.choice gives every element of the pool with a fixed positive
\* probability at every iteration, so a loop that keeps drawing does not draw
\* collected numbers for ever while the pool holds another one
SpecLoop == GenInit /\ [][LoopNext]_vars /\ WF_vars(NewNumber)

\* white_balls holds at most 5 pairwise-distinct numbers of 1..69
LoopList ==
    gen_pc = "sampling" =>
        /\ Len(white_balls) <= WhitePerDraw
        /\ Range(white_balls) \subseteq WhiteDomain
        /\ Cardinality(Range(white_balls)) = Len(white_balls)

\* every number of 1..69 is in the pool at least once
PoolComplete ==
    gen_pc = "sampling" =>
        \A n \in WhiteDomain :
            \E i \in 1..Len(selection_pool) :
                selection_pool[i].num = n /\ selection_pool[i].weight >= 1

\* C26: in the loop of the frequency-weighted and conservative strategies
\* white_balls is at every iteration a list of at most 5 pairwise-distinct
\* numbers of 1..69, the pool holds every number of 1..69 at least once, and
\* under fair random choice the loop ends with exactly 5 numbers.
C26_LoopTerminates ==
    /\ []LoopList
    /\ []PoolComplete
    /\ (gen_pc = "sampling") ~> (gen_pc = "sampling" /\ Len(white_balls) = WhitePerDraw)

C26_Witness ==
    /\ gen_pc = "sampling"
    /\ gen_call = "generate_conservative_numbers"
    /\ Len(white_balls) = WhitePerDraw
    /\ attempts > WhitePerDraw

\* the analysis line of display_numbers for the set just returned
ReportedHot == CountOn(gen_result.white_balls, hot_numbers)
ReportedCold == CountOn(gen_result.white_balls, cold_numbers)
ReportedNeutral == WhitePerDraw - ReportedHot - ReportedCold

HotColdDisjoint == Range(Keys(hot_numbers)) \cap Range(Keys(cold_numbers)) = {}

\* C27: on every history the hot list and the cold list of a generator have no
\* number in common, and the hot, cold and neutral counts reported for a
\* returned set are each between 0 and 5 and add up to 5.
C27_ReportedCounts ==
    /\ HotColdDisjoint
    /\ gen_pc = "returned" =>
        /\ ReportedHot \in 0..WhitePerDraw
        /\ ReportedCold \in 0..WhitePerDraw
        /\ ReportedNeutral \in 0..WhitePerDraw
        /\ ReportedHot + ReportedCold + ReportedNeutral = WhitePerDraw

\* a returned set with hot, cold and neutral numbers
C27_Witness ==
    /\ gen_pc = "returned"
    /\ gen_class = "final"
    /\ ReportedHot > 0
    /\ ReportedCold > 0
    /\ ReportedNeutral > 0

\* the category heat_index_rankings gives a white ball on the generator's history
WhiteCategory(n) == HeatEntry(n, gen_white_balls, WhiteMax).category

\* C28 (as stated): on every history a white ball is on the generators' hot
\* list exactly when its heat-index category is blazing hot, and on the cold
\* list exactly when its category is freezing, a ball whose z_score is exactly
\* 2 included.
C28_AsStated ==
    gen_pc = "ready" =>
        \A n \in WhiteDomain :
            /\ n \in Range(Keys(hot_numbers)) <=> WhiteCategory(n) = "BLAZING HOT"
            /\ n \in Range(Keys(cold_numbers)) <=> WhiteCategory(n) = "FREEZING"

\* the position strategies whose preference lists are written in the code
HardCodedStrategies == PositionStrategies \ {"generate_ultimate_strategy"}

\* every number of an earlier position's list is below every number of a
\* later position's list
ListsAscend(prefs) ==
    \A i, j \in 1..Len(prefs) :
        i < j => \A a \in Range(prefs[i]) : \A b \in Range(prefs[j]) : a < b

\* C29: in the position strategies with hard-coded preference lists the five
\* per-position picks are pairwise distinct, the returned set is these picks
\* (the repair loop has added or removed nothing), and its i-th smallest white
\* ball is on the preference list of position i.
C29_HardCodedPositions ==
    /\ ListsAscend(FinalPositionPreferences)
    /\ ListsAscend(SmartPositionPreferences)
    /\ (gen_pc = "returned" /\ gen_result.strategy \in HardCodedStrategies) =>
        /\ Distinct(Selected(picked))
        /\ gen_result.white_balls = Selected(picked)
        /\ \A pos \in 1..WhitePerDraw :
            gen_result.white_balls[pos] \in Range(PreferencesOf(gen_result.strategy)[pos])

\* the final generator's position strategy has returned a set whose second
\* number was selected by the branch for the hot numbers
C29_Witness ==
    /\ gen_pc = "returned"
    /\ gen_result.strategy = "generate_position_based_strategy"
    /\ picked[2].hot
    /\ gen_result.white_balls[2] = 28

ColdPowerballs == Range(Keys(cold_powerballs))

\* C30: on every non-empty history the powerball pool of the conservative
\* strategy is not empty and holds no cold powerball, the strategy does not
\* fail for want of a powerball, and the powerball it returns is not a cold
\* powerball.
C30_ConservativePowerball ==
    /\ (gen_pc = "sampling" /\ gen_call = "generate_conservative_numbers"
            /\ Len(white_balls) = WhitePerDraw /\ gen_df # <<>>) =>
        LET pb_pool == PoolNumbers(PbPool(gen_call))
        IN  /\ pb_pool # {}
            /\ pb_pool \cap ColdPowerballs = {}
    /\ gen_result.strategy = "generate_conservative_numbers" =>
        /\ gen_pc # "raised"
        /\ gen_result.powerball \notin ColdPowerballs

\* the conservative strategy has returned on a history with cold powerballs
C30_Witness ==
    /\ gen_pc = "returned"
    /\ gen_result.strategy = "generate_conservative_numbers"
    /\ ColdPowerballs # {}
    /\ gen_result.powerball \in PbDomain

====
